---------------------------- MODULE Spec2Model ----------------------------
(***************************************************************************)
(* Lua-KeyValues-Source2: the three KeyValues codecs (KV0 = lua_kv.c,      *)
(* KV1 = lua_kv1.c, KV3 = lua_kv3.c) as operators over byte sequences and  *)
(* Lua values, and a harness that feeds them inputs.                       *)
(*                                                                         *)
(* Bytes are one-character strings; an input is a sequence of bytes that   *)
(* is followed in memory by one NUL (a Lua string).  Offsets are 0-based   *)
(* as in the C code (ptr - data).  A read at an offset above the length    *)
(* of the input leaves the buffer: undefined behaviour, status "ub".       *)
(***************************************************************************)
EXTENDS Integers, Sequences, FiniteSets, TLC

\* With(e, LAMBDA x : body) is body with x naming the value of e
With(v, Body(_)) == Body(v)

\* Call(f, a): the C function named f applied to the arguments a
RECURSIVE Call(_, _)

(***************************************************************************)
(* Bounds of the model                                                     *)
(***************************************************************************)
\* decode_max_depth of the configuration (1..INT_MAX in the code)
DecodeMaxDepth == 2
\* encode_max_depth of the configuration (1..INT_MAX in the code)
EncodeMaxDepth == 3
\* fragments the harness appends to a seed input
MaxFrags == 2
\* nested ckv_decode_file calls that the model follows
MaxInclude == 2

(***************************************************************************)
(* Bytes                                                                   *)
(***************************************************************************)
NUL == "NUL"
OOB == "OOB"
DQ  == "\""
BS  == "\\"
TAB == "\t"
LF  == "\n"
CR  == "\r"
SP  == " "

Digits == {"0", "1", "2", "3", "4", "5", "6", "7", "8", "9"}
Lower  == {"a", "b", "c", "d", "e", "f", "g", "h", "i", "j", "k", "l", "m",
           "n", "o", "p", "q", "r", "s", "t", "u", "v", "w", "x", "y", "z"}
Upper  == {"A", "B", "C", "D", "E", "F", "G", "H", "I", "J", "K", "L", "M",
           "N", "O", "P", "Q", "R", "S", "T", "U", "V", "W", "X", "Y", "Z"}

DigitVal(ch) ==
    CASE ch = "0" -> 0 [] ch = "1" -> 1 [] ch = "2" -> 2 [] ch = "3" -> 3
      [] ch = "4" -> 4 [] ch = "5" -> 5 [] ch = "6" -> 6 [] ch = "7" -> 7
      [] ch = "8" -> 8 [] ch = "9" -> 9

DigitChar(d) ==
    CASE d = 0 -> "0" [] d = 1 -> "1" [] d = 2 -> "2" [] d = 3 -> "3"
      [] d = 4 -> "4" [] d = 5 -> "5" [] d = 6 -> "6" [] d = 7 -> "7"
      [] d = 8 -> "8" [] d = 9 -> "9"

\* *(data + p): the byte at 0-based offset p; the byte at Len(data) is the
\* terminator, anything above is outside the buffer.
At(data, p) ==
    IF p >= 0 /\ p < Len(data) THEN data[p + 1]
    ELSE IF p = Len(data) THEN NUL
    ELSE OOB

Max2(a, b) == IF a >= b THEN a ELSE b

Min2(a, b) == IF a <= b THEN a ELSE b

RECURSIVE Concat(_)
Concat(ss) == IF ss = <<>> THEN <<>> ELSE Head(ss) \o Concat(Tail(ss))

(***************************************************************************)
(* Lua values.  Every value is a record of the same shape so that any two  *)
(* values can be compared.  A table is the sequence of its key/value       *)
(* pairs in insertion order; lua_next is taken to enumerate in that order. *)
(***************************************************************************)
LStr(s)  == [t |-> "str",  s |-> s,    n |-> 0, e |-> <<>>]
LNum(n)  == [t |-> "num",  s |-> <<>>, n |-> n, e |-> <<>>]
LTbl(e)  == [t |-> "tbl",  s |-> <<>>, n |-> 0, e |-> e]
LNull    == [t |-> "null", s |-> <<>>, n |-> 0, e |-> <<>>]
LNil     == [t |-> "nil",  s |-> <<>>, n |-> 0, e |-> <<>>]
LBool(b) == [t |-> "bool", s |-> <<>>, n |-> IF b THEN 1 ELSE 0, e |-> <<>>]
\* the running C function, the slot below the first stack slot
LFunc    == [t |-> "func", s |-> <<>>, n |-> 0, e |-> <<>>]

KeyIndex(e, k) ==
    IF \E i \in 1..Len(e) : e[i].k = k
    THEN CHOOSE i \in 1..Len(e) : e[i].k = k
    ELSE 0

\* t[k] = v (raw)
TblSet(tb, k, v) ==
    With(KeyIndex(tb.e, k), LAMBDA i :
    IF i = 0 THEN LTbl(Append(tb.e, [k |-> k, v |-> v]))
    ELSE LTbl([tb.e EXCEPT ![i] = [k |-> k, v |-> v]]))

\* t[k] (raw), nil when absent
TblGet(tb, k) ==
    With(KeyIndex(tb.e, k), LAMBDA i : IF i = 0 THEN LNil ELSE tb.e[i].v)

\* lua_rawlen of a table: a border of its integer keys
RECURSIVE RawLenFrom(_, _)
RawLenFrom(tb, n) ==
    IF KeyIndex(tb.e, LNum(n + 1)) = 0 THEN n ELSE RawLenFrom(tb, n + 1)

lua_rawlen(v) ==
    IF v.t = "tbl" THEN RawLenFrom(v, 0)
    ELSE IF v.t = "str" THEN Len(v.s)
    ELSE 0

(***************************************************************************)
(* The parse state (ckv_parse_t and its siblings) together with what the   *)
(* call shares with its caller: the Lua stack, the strbufs that were       *)
(* allocated, and how the call ended.                                      *)
(*   status  "run"   the call is executing                                 *)
(*           "error" luaL_error was called (longjmp out of the call)       *)
(*           "ub"    the code did something C leaves undefined             *)
(*   bufs    one entry per strbuf_new, with the number of strbuf_free      *)
(*   loadType  the static loadType of lua_kv1.c                            *)
(*   dangling  a string was read through a pointer that lua_tolstring      *)
(*             returned for a value that had left the stack                *)
(*   maxdepth  the largest current_depth with which a container was        *)
(*             entered; attempt the largest current_depth ever stored      *)
(*   low     the smallest current_depth ever stored; left the largest      *)
(*           current_depth with which a parse of an included file returned *)
(*   slack   the fewest bytes that a token has left free in the scratch    *)
(*           buffer of its parse; spill: a loop that appends to the        *)
(*           scratch buffer went on reading behind the input               *)
(*   errtok  a tokenizer call of this parse has yielded a T_ERROR token    *)
(*   ub      the call has left the behaviour that C defines                *)
(*   found   the type of the token that a parse error names; edata, eptr   *)
(*           the buffer and the cursor of the parse that raised the error  *)
(*           or left defined behaviour                                     *)
(***************************************************************************)
\* the bytes that strbuf_new(len) reserves: room for len bytes and the
\* terminator, the default size for no length
strbuf_capacity(len) == IF len <= 0 THEN 1023 ELSE len + 1

NewParse(data, cfg) ==
    [data |-> data, cfg |-> cfg, ptr |-> 0, tmp |-> <<>>, tmpid |-> 0,
     fileid |-> 0,
     depth |-> 0, maxdepth |-> 0, attempt |-> 0, low |-> 0, left |-> 0,
     slack |-> strbuf_capacity(Len(data)), spill |-> FALSE,
     loadType |-> "LoadType_Map",
     stack |-> <<>>, bufs |-> <<>>, dangling |-> FALSE, errtok |-> FALSE,
     ub |-> FALSE, status |-> "run", msg |-> "", pos |-> 0,
     found |-> "", edata |-> <<>>, eptr |-> 0]

Running(M) == M.status = "run"

\* luaL_error: the message and the character position it reports
luaL_error(M, msg, pos) ==
    [M EXCEPT !.status = "error", !.msg = msg, !.pos = pos,
              !.edata = M.data, !.eptr = M.ptr]

Undefined(M, what) ==
    [M EXCEPT !.status = "ub", !.ub = TRUE, !.msg = what,
              !.edata = M.data, !.eptr = M.ptr]

\* a loop that advances ptr without a test for the terminating NUL has
\* stepped over it: the next read is outside the buffer
ScanPast(M, what) ==
    [Undefined(M, what) EXCEPT !.eptr = Len(M.data) + 1]

\* strbuf_append_char_unsafe and strbuf_ensure_null: a token has put n
\* bytes into the scratch buffer
Wrote(M, n) ==
    [M EXCEPT !.slack = Min2(@, strbuf_capacity(Len(M.data)) - n)]

\* lua_checkstack: the Lua stack can always grow by the few slots asked for
lua_checkstack(slots) == TRUE

\* strbuf_new: a fresh buffer, which becomes the parse's tmp
strbuf_new_tmp(M, kind) ==
    [M EXCEPT !.bufs = Append(@, [kind |-> kind, frees |-> 0]),
              !.tmpid = Len(M.bufs) + 1, !.tmp = <<>>]

strbuf_free(M, id) ==
    [M EXCEPT !.bufs[id].frees = @ + 1]

\* Lua stack operations
lua_push(M, v) == [M EXCEPT !.stack = Append(@, v)]
lua_newtable(M) == lua_push(M, LTbl(<<>>))
lua_pop(M, n) == [M EXCEPT !.stack = SubSeq(@, 1, Len(@) - n)]

\* the key and the value are popped and the table is left as it was
lua_rawset3_dropped(M) == lua_pop(M, 2)

\* lua_rawset(l, -3): stack .., table, key, value
lua_rawset3(M) ==
    With(Len(M.stack), LAMBDA n :
    [M EXCEPT !.stack =
        Append(SubSeq(@, 1, n - 3), TblSet(@[n - 2], @[n - 1], @[n]))])

\* lua_rawseti(l, -2, i): stack .., table, value
lua_rawseti2(M, i) ==
    With(Len(M.stack), LAMBDA n :
    [M EXCEPT !.stack =
        Append(SubSeq(@, 1, n - 2), TblSet(@[n - 1], LNum(i), @[n]))])

(***************************************************************************)
(* Tokens (ckv_token_t).  value is a C union: sv records which member was  *)
(* written last ("str" a pointer into tmp, "lit" a message literal, "num"  *)
(* the double, "none" nothing yet); str and string_len keep the last       *)
(* string that a string scan stored, as the C struct does.                 *)
(***************************************************************************)
\* what a tokenizer call hands back: the parse state and the token, the
\* state recording that a T_ERROR token has been produced
Yield(r) ==
    IF r.t.type = "T_ERROR" /\ r.m.status = "run"
    THEN [r EXCEPT !.m.errtok = TRUE]
    ELSE r

FreshToken ==
    [type |-> "T_NONE", index |-> 0, sv |-> "none", str |-> <<>>,
     lit |-> "", num |-> 0, string_len |-> -1]

set_token_error(tok, M, errtype) ==
    [tok EXCEPT !.type = "T_ERROR", !.index = M.ptr, !.sv = "lit",
                !.lit = errtype]

\* token->type = T_STRING; token->value.string = strbuf_string(tmp, &len)
set_token_string(tok, s) ==
    [tok EXCEPT !.type = "T_STRING", !.sv = "str", !.str = s,
                !.string_len = Len(s)]

\* the bytes of the message literals of the tokenizers
LitChars(lit) ==
    CASE lit = "invalid token" ->
           <<"i", "n", "v", "a", "l", "i", "d", " ", "t", "o", "k", "e", "n">>
      [] lit = "invalid token 1" ->
           <<"i", "n", "v", "a", "l", "i", "d", " ", "t", "o", "k", "e", "n", " ", "1">>
      [] lit = "invalid token 1057" ->
           <<"i", "n", "v", "a", "l", "i", "d", " ", "t", "o", "k", "e", "n", " ", "1", "0", "5", "7">>
      [] lit = "invalid number" ->
           <<"i", "n", "v", "a", "l", "i", "d", " ", "n", "u", "m", "b", "e", "r">>
      [] lit = "unexpected end of string" ->
           <<"u", "n", "e", "x", "p", "e", "c", "t", "e", "d", " ", "e", "n", "d", " ", "o", "f", " ", "s", "t", "r", "i", "n", "g">>
      [] lit = "invalid escape code" ->
           <<"i", "n", "v", "a", "l", "i", "d", " ", "e", "s", "c", "a", "p", "e", " ", "c", "o", "d", "e">>
      [] lit = "invalid unicode escape code" ->
           <<"i", "n", "v", "a", "l", "i", "d", " ", "u", "n", "i", "c", "o", "d", "e", " ", "e", "s", "c", "a", "p", "e", " ", "c", "o", "d", "e">>

\* lua_pushlstring(l, token->value.string, token->string_len).  It reads
\* string_len bytes at value.string, whatever the token's type: after a
\* string token the pointer still addresses tmp; after an error token it
\* addresses the message literal; otherwise the read is undefined.
push_token_string(M, tok) ==
    IF tok.sv = "str" THEN lua_push(M, LStr(tok.str))
    ELSE IF tok.sv = "lit" /\ tok.string_len >= 0
                           /\ tok.string_len <= Len(LitChars(tok.lit))
    THEN lua_push(M, LStr(SubSeq(LitChars(tok.lit), 1, tok.string_len)))
    ELSE Undefined(M, "lua_pushlstring of a token that holds no string")

(***************************************************************************)
(* Number conversion (fpconv_strtod, fpconv_g_fmt), for the numbers the    *)
(* harness writes: an optional sign and decimal digits.                    *)
(***************************************************************************)
RECURSIVE DigitsEnd(_, _)
DigitsEnd(data, p) ==
    IF At(data, p) \in Digits THEN DigitsEnd(data, p + 1) ELSE p

RECURSIVE DigitsValue(_, _, _, _)
DigitsValue(data, p, q, acc) ==
    IF p >= q THEN acc
    ELSE DigitsValue(data, p + 1, q, acc * 10 + DigitVal(At(data, p)))

\* strtod at offset p: [end, val]; end = p when nothing was converted
fpconv_strtod(data, p) ==
    With(At(data, p) \in {"-", "+"}, LAMBDA signed :
        With(IF signed THEN p + 1 ELSE p, LAMBDA d0 :
        With(DigitsEnd(data, d0), LAMBDA d1 :
        With(DigitsValue(data, d0, d1, 0), LAMBDA v :
    IF d1 = d0 THEN [end |-> p, val |-> 0]
       ELSE [end |-> d1, val |-> IF At(data, p) = "-" THEN 0 - v ELSE v]))))

RECURSIVE NatDigits(_)
NatDigits(n) ==
    IF n < 10 THEN <<DigitChar(n)>>
    ELSE Append(NatDigits(n \div 10), DigitChar(n % 10))

\* "%.14g" of an integral double
fpconv_g_fmt(n) == IF n < 0 THEN <<"-">> \o NatDigits(0 - n) ELSE NatDigits(n)

(***************************************************************************)
(* KV0 (lua_kv.c): classifier, tokenizer                                   *)
(***************************************************************************)
ckv_ch2token(ch) ==
    IF ch = "{" THEN "T_OBJ_BEGIN"
    ELSE IF ch = "}" THEN "T_OBJ_END"
    ELSE IF ch = "," THEN "T_COMMA"
    ELSE IF ch = NUL THEN "T_END"
    ELSE IF ch = "#" THEN "T_REF"
    ELSE IF ch \in {SP, TAB, LF, CR} THEN "T_WHITESPACE"
    ELSE IF ch = "/" THEN "T_COMMENT"
    ELSE IF ch \in {"f", "i", "I", "n", "N", "t", DQ, "+", "-"} \cup Digits
         THEN "T_UNKNOWN"
    ELSE "T_ERROR"

\* escape2char: "" stands for 0, the entry of a byte that is no escape
escape2char(ch) ==
    IF ch \in {DQ, BS, "/"} THEN ch
    ELSE IF ch = "b" THEN "BSP"
    ELSE IF ch = "t" THEN TAB
    ELSE IF ch = "n" THEN LF
    ELSE IF ch = "f" THEN "\f"
    ELSE IF ch = "r" THEN CR
    ELSE IF ch = "u" THEN "u"
    ELSE ""

hexdigit2int(hex) ==
    IF hex \in Digits THEN DigitVal(hex)
    ELSE IF hex \in {"a", "A"} THEN 10
    ELSE IF hex \in {"b", "B"} THEN 11
    ELSE IF hex \in {"c", "C"} THEN 12
    ELSE IF hex \in {"d", "D"} THEN 13
    ELSE IF hex \in {"e", "E"} THEN 14
    ELSE IF hex \in {"f", "F"} THEN 15
    ELSE -1

\* the four digits are read left to right and the read stops at the first
\* byte that is no hex digit
decode_hex4(data, p) ==
    With(hexdigit2int(At(data, p)), LAMBDA d0 :
        With(hexdigit2int(At(data, p + 1)), LAMBDA d1 :
        With(hexdigit2int(At(data, p + 2)), LAMBDA d2 :
        With(hexdigit2int(At(data, p + 3)), LAMBDA d3 :
    IF d0 < 0 THEN -1
       ELSE IF d1 < 0 THEN -1
       ELSE IF d2 < 0 THEN -1
       ELSE IF d3 < 0 THEN -1
       ELSE d0 * 4096 + d1 * 256 + d2 * 16 + d3))))

\* a byte by its value: the printable ASCII bytes are themselves, any
\* other byte (and the two quote marks 39 and 96) is written xNNN
AsciiPrintable ==
    <<SP, "!", DQ, "#", "$", "%", "&", "x39", "(", ")", "*", "+", ",", "-",
      ".", "/", "0", "1", "2", "3", "4", "5", "6", "7", "8", "9", ":", ";",
      "<", "=", ">", "?", "@", "A", "B", "C", "D", "E", "F", "G", "H", "I",
      "J", "K", "L", "M", "N", "O", "P", "Q", "R", "S", "T", "U", "V", "W",
      "X", "Y", "Z", "[", BS, "]", "^", "_", "x96", "a", "b", "c", "d", "e",
      "f", "g", "h", "i", "j", "k", "l", "m", "n", "o", "p", "q", "r", "s",
      "t", "u", "v", "w", "x", "y", "z", "{", "|", "}", "~">>

ByteOf(b) ==
    IF b >= 32 /\ b <= 126 THEN AsciiPrintable[b - 31]
    ELSE IF b = 0 THEN NUL
    ELSE IF b = 9 THEN TAB
    ELSE IF b = 10 THEN LF
    ELSE IF b = 13 THEN CR
    ELSE IF b = 8 THEN "BSP"
    ELSE IF b = 12 THEN "\f"
    ELSE "x" \o ToString(b)

\* an encoder that takes two bytes up to 0xFFF
codepoint_to_utf8_wide(cp) ==
    IF cp <= 127 THEN <<ByteOf(cp)>>
    ELSE IF cp <= 4095
         THEN <<ByteOf(192 + (cp \div 64)), ByteOf(128 + (cp % 64))>>
    ELSE <<ByteOf(224 + (cp \div 4096)),
           ByteOf(128 + ((cp \div 64) % 64)),
           ByteOf(128 + (cp % 64))>>

\* the UTF-8 bytes of a code point; <<>> when it has none
codepoint_to_utf8(cp) ==
    IF cp <= 127 THEN <<ByteOf(cp)>>
    ELSE IF cp <= 2047
         THEN <<ByteOf(192 + (cp \div 64)), ByteOf(128 + (cp % 64))>>
    ELSE IF cp <= 65535
         THEN <<ByteOf(224 + (cp \div 4096)),
                ByteOf(128 + ((cp \div 64) % 64)),
                ByteOf(128 + (cp % 64))>>
    ELSE IF cp <= 2097151
         THEN <<ByteOf(240 + (cp \div 262144)),
                ByteOf(128 + ((cp \div 4096) % 64)),
                ByteOf(128 + ((cp \div 64) % 64)),
                ByteOf(128 + (cp % 64))>>
    ELSE <<>>

\* p is the offset of the backslash of \uXXXX.  [ok, p, bytes]: the
\* offset after the escape and the UTF-8 bytes appended to tmp.
ckv_append_unicode_escape(data, p) ==
    With(decode_hex4(data, p + 2), LAMBDA cp :
        With([ok |-> FALSE, p |-> p, bytes |-> <<>>], LAMBDA bad :
    IF cp < 0 THEN bad
       ELSE IF cp >= 55296 /\ cp <= 57343
       THEN IF cp >= 56320 THEN bad
            ELSE IF At(data, p + 6) # BS THEN bad
            ELSE IF At(data, p + 7) # "u" THEN bad
            ELSE With(decode_hex4(data, p + 8), LAMBDA lo :
                 IF lo < 0 THEN bad
                 ELSE IF ~(lo >= 56320 /\ lo <= 57343) THEN bad
                 ELSE [ok |-> TRUE, p |-> p + 12,
                       bytes |-> codepoint_to_utf8(
                           ((cp % 1024) * 1024 + (lo % 1024)) + 65536)])
       ELSE [ok |-> TRUE, p |-> p + 6, bytes |-> codepoint_to_utf8(cp)]))

\* the loop of ckv_next_string_token, from the byte after the opening
\* quote: [err, p, s] with err = "" when the closing quote was eaten
RECURSIVE ckv_scan_string(_, _, _)
ckv_scan_string(data, p, acc) ==
    With(At(data, p), LAMBDA ch :
    IF ch = DQ THEN [err |-> "", p |-> p + 1, s |-> acc]
    ELSE IF ch = NUL
    THEN [err |-> "unexpected end of string", p |-> p, s |-> acc]
    ELSE IF ch = BS
    THEN With(escape2char(At(data, p + 1)), LAMBDA e :
         IF e = "u"
         THEN With(ckv_append_unicode_escape(data, p), LAMBDA u :
              IF u.ok THEN ckv_scan_string(data, u.p, acc \o u.bytes)
              ELSE [err |-> "invalid unicode escape code", p |-> p,
                    s |-> acc])
         ELSE IF e = ""
         THEN [err |-> "invalid escape code", p |-> p, s |-> acc]
         ELSE ckv_scan_string(data, p + 2, Append(acc, e)))
    ELSE ckv_scan_string(data, p + 1, Append(acc, ch)))

\* [m, t]: the parse state and the token after the call
ckv_next_string_token(M, tok) ==
    With(ckv_scan_string(M.data, M.ptr + 1, <<>>), LAMBDA r :
        With(Wrote([M EXCEPT !.ptr = r.p, !.tmp = r.s],
                   Len(r.s) + (IF r.err = "" THEN 1 ELSE 0)), LAMBDA M1 :
    IF r.err # "" THEN [m |-> M1, t |-> set_token_error(tok, M1, r.err)]
       ELSE [m |-> M1, t |-> set_token_string(tok, r.s)]))

\* the bytes with *p <= '9'
UpToNine ==
    Digits \cup {NUL, TAB, LF, CR, SP, "!", DQ, "#", "$", "%", "&", "x39",
                 "(", ")", "*", "+", ",", "-", ".", "/", "BSP", "\f"}

\* strncasecmp(p, word, 3) = 0
HasPrefix3(data, p, a, b, c) ==
    /\ At(data, p) \in a
    /\ At(data, p + 1) \in b
    /\ At(data, p + 2) \in c

ckv_is_invalid_number(data, ptr) ==
    IF At(data, ptr) = "+" THEN TRUE
    ELSE With(IF At(data, ptr) = "-" THEN ptr + 1 ELSE ptr, LAMBDA p :
         IF At(data, p) = "0"
         THEN At(data, p + 1) \in {"x", "X"} \cup Digits
         ELSE IF At(data, p) \in UpToNine THEN FALSE
         ELSE \/ HasPrefix3(data, p, {"i", "I"}, {"n", "N"}, {"f", "F"})
              \/ HasPrefix3(data, p, {"n", "N"}, {"a", "A"}, {"n", "N"}))

ckv_next_number_token(M, tok) ==
    With(fpconv_strtod(M.data, M.ptr), LAMBDA r :
    IF r.end = M.ptr
    THEN [m |-> M,
          t |-> set_token_error([tok EXCEPT !.type = "T_NUMBER", !.sv = "num",
                                            !.num = r.val],
                                M, "invalid number")]
    ELSE [m |-> [M EXCEPT !.ptr = r.end],
          t |-> [tok EXCEPT !.type = "T_NUMBER", !.sv = "num", !.num = r.val]])

\* the inner loop of a line comment: from the slash at p to the CR or LF
\* that ends it; -1 when the scan runs past the terminator of the input
RECURSIVE ckv_skip_comment(_, _)
ckv_skip_comment(data, p) ==
    With(At(data, p + 1), LAMBDA ch :
    IF ch = OOB THEN -1
    ELSE IF ch \in {CR, LF} THEN p + 1
    ELSE ckv_skip_comment(data, p + 1))

\* "Eat whitespace": the offset of the first byte that is neither white
\* space nor inside a comment; -1 when a comment runs out of the input
RECURSIVE ckv_eat_whitespace(_, _)
ckv_eat_whitespace(data, p) ==
    With(ckv_ch2token(At(data, p)), LAMBDA ty :
    IF ty = "T_WHITESPACE" THEN ckv_eat_whitespace(data, p + 1)
    ELSE IF ty = "T_COMMENT"
    THEN With(ckv_skip_comment(data, p), LAMBDA q :
         IF q < 0 THEN -1 ELSE ckv_eat_whitespace(data, q + 1))
    ELSE p)

ckv_next_token(M, tok) ==
    Yield(
    With(ckv_eat_whitespace(M.data, M.ptr), LAMBDA p :
    IF p < 0
    THEN [m |-> ScanPast(M, "comment scan past the end of the input"),
          t |-> tok]
    ELSE
    With(At(M.data, p), LAMBDA ch :
        With(ckv_ch2token(ch), LAMBDA ty :
        With([M EXCEPT !.ptr = p], LAMBDA M1 :
        With([tok EXCEPT !.type = ty, !.index = p], LAMBDA t1 :
    IF ty = "T_ERROR"
       THEN [m |-> M1, t |-> set_token_error(t1, M1, "invalid token 1057")]
       ELSE IF ty = "T_END" THEN [m |-> M1, t |-> t1]
       ELSE IF ty # "T_UNKNOWN"
       THEN [m |-> [M1 EXCEPT !.ptr = p + 1], t |-> t1]
       ELSE IF ch = DQ THEN Call("ckv_next_string_token", <<M1, t1>>)
       ELSE IF ch = "-" \/ ch \in Digits
       THEN IF ~M.cfg.decode_invalid_numbers
               /\ ckv_is_invalid_number(M.data, p)
            THEN [m |-> M1, t |-> set_token_error(t1, M1, "invalid number")]
            ELSE Call("ckv_next_number_token", <<M1, t1>>)
       ELSE IF M.cfg.decode_invalid_numbers
               /\ ckv_is_invalid_number(M.data, p)
       THEN Call("ckv_next_number_token", <<M1, t1>>)
       ELSE [m |-> M1, t |-> set_token_error(t1, M1, "invalid token 1")]))))))

(***************************************************************************)
(* KV0 (lua_kv.c): parser and the entry points decode, decode2             *)
(***************************************************************************)
\* the text of "Expected %s but found %s"; the position is kept apart
ExpectedFound(exp, tok) ==
    "Expected " \o exp \o " but found "
        \o (IF tok.type = "T_ERROR" THEN tok.lit ELSE tok.type)

TooDeep == "Found too many nested data structures"

\* the position reported as the 0-based index of the token
ckv_throw_parse_error_index(M, exp, tok) ==
    [luaL_error(strbuf_free(M, M.tmpid), ExpectedFound(exp, tok),
                tok.index) EXCEPT !.found = tok.type]

ckv_throw_parse_error(M, exp, tok) ==
    [luaL_error(strbuf_free(M, M.tmpid), ExpectedFound(exp, tok),
                tok.index + 1) EXCEPT !.found = tok.type]

ckv_decode_ascend(M) ==
    [M EXCEPT !.depth = @ - 1, !.low = Min2(@, M.depth - 1)]

\* the check without the comparison of the depth
ckv_descend_unbounded(M, depth, slots) == lua_checkstack(slots)

ckv_descend_allowed(M, depth, slots) ==
    depth <= M.cfg.decode_max_depth /\ lua_checkstack(slots)

ckv_decode_descend(M, slots) ==
    With(M.depth + 1, LAMBDA d :
        With([M EXCEPT !.depth = d, !.attempt = Max2(@, d)], LAMBDA M1 :
    IF Call("ckv_descend_allowed", <<M, d, slots>>)
       THEN [M1 EXCEPT !.maxdepth = Max2(@, d)]
       ELSE luaL_error(strbuf_free(M1, M1.tmpid), TooDeep, M1.ptr)))

RECURSIVE ckv_process_value(_, _)
RECURSIVE ckv_object_loop(_, _)
RECURSIVE ckv_process_value2(_, _)
RECURSIVE ckv_array_loop(_, _, _)

ckv_parse_object_context(M) ==
    With(Call("ckv_decode_descend", <<M, 3>>), LAMBDA M1 :
    IF ~Running(M1) THEN M1
    ELSE With(Call("ckv_next_token", <<lua_newtable(M1), FreshToken>>), LAMBDA r :
         IF ~Running(r.m) THEN r.m
         ELSE IF r.t.type = "T_OBJ_END" THEN Call("ckv_decode_ascend", <<r.m>>)
         ELSE Call("ckv_object_loop", <<r.m, r.t>>)))

\* one turn of the while (1) of ckv_parse_object_context
ckv_object_loop(M, tok) ==
    IF tok.type # "T_STRING"
    THEN Call("ckv_throw_parse_error", <<M, "object key string", tok>>)
    ELSE With(Call("ckv_next_token", <<Call("push_token_string", <<M, tok>>), tok>>), LAMBDA r1 :
             With(Call("ckv_process_value", <<r1.m, r1.t>>), LAMBDA M2 :
         IF ~Running(M2) THEN M2
            ELSE With(Call("ckv_next_token", <<lua_rawset3(M2), r1.t>>), LAMBDA r2 :
                 IF ~Running(r2.m) THEN r2.m
                 ELSE IF r2.t.type = "T_OBJ_END"
                 THEN Call("ckv_decode_ascend", <<r2.m>>)
                 ELSE Call("ckv_object_loop", <<r2.m, r2.t>>))))

ckv_process_value(M, tok) ==
    IF ~Running(M) THEN M
    ELSE IF tok.type = "T_STRING" THEN Call("push_token_string", <<M, tok>>)
    ELSE IF tok.type = "T_OBJ_BEGIN" THEN Call("ckv_parse_object_context", <<M>>)
    ELSE IF tok.type = "T_NUMBER" THEN lua_push(M, LNum(tok.num))
    ELSE IF tok.type = "T_BOOLEAN"
         THEN lua_push(lua_push(M, LBool(tok.num # 0)), LNull)
    ELSE IF tok.type = "T_NULL" THEN lua_push(M, LNull)
    ELSE Call("ckv_throw_parse_error", <<M, "value", tok>>)

ckv_parse_array_context(M) ==
    With(Call("ckv_decode_descend", <<M, 2>>), LAMBDA M1 :
    IF ~Running(M1) THEN M1
    ELSE With(Call("ckv_next_token", <<lua_newtable(M1), FreshToken>>), LAMBDA r :
         IF ~Running(r.m) THEN r.m
         ELSE IF r.t.type = "T_OBJ_END" THEN Call("ckv_decode_ascend", <<r.m>>)
         ELSE Call("ckv_array_loop", <<r.m, r.t, 1>>)))

\* one turn of the for (i = 1; ; i++) of ckv_parse_array_context
ckv_array_loop(M, tok, i) ==
    With(Call("ckv_process_value2", <<M, tok>>), LAMBDA M1 :
    IF ~Running(M1) THEN M1
    ELSE With(Call("ckv_next_token", <<lua_rawseti2(M1, i), tok>>), LAMBDA r :
         IF ~Running(r.m) THEN r.m
         ELSE IF r.t.type = "T_OBJ_END" THEN Call("ckv_decode_ascend", <<r.m>>)
         ELSE Call("ckv_array_loop", <<r.m, r.t, i + 1>>)))

ckv_process_value2(M, tok) ==
    IF ~Running(M) THEN M
    ELSE IF tok.type = "T_STRING" THEN Call("push_token_string", <<M, tok>>)
    ELSE IF tok.type = "T_OBJ_BEGIN" THEN Call("ckv_parse_array_context", <<M>>)
    ELSE IF tok.type = "T_NUMBER" THEN lua_push(M, LNum(tok.num))
    ELSE IF tok.type = "T_BOOLEAN" THEN lua_push(M, LBool(tok.num # 0))
    ELSE IF tok.type = "T_NULL" THEN lua_push(M, LNull)
    ELSE Call("ckv_throw_parse_error", <<M, "value", tok>>)

\* the check "ckv parser does not support UTF-16 or UTF-32"
IsUtf16(data) == Len(data) >= 2 /\ (data[1] = NUL \/ data[2] = NUL)

Utf16Msg == "ckv parser does not support UTF-16 or UTF-32"

\* the return of an entry point: "ok" with the value it returns
Return(M) ==
    IF Running(M) THEN [M EXCEPT !.status = "ok"] ELSE M

\* ckv_decode(l); the result is the parse state at the return or the raise
ckv_decode(data, cfg) ==
    With(NewParse(data, cfg), LAMBDA M0 :
    IF IsUtf16(data) THEN luaL_error(M0, Utf16Msg, 0)
    ELSE
    With(lua_newtable(strbuf_new_tmp(M0, "tmp")), LAMBDA M1 :
        With(Call("ckv_next_token", <<M1, FreshToken>>), LAMBDA r1 :
    IF ~Running(r1.m) THEN r1.m
       ELSE IF r1.t.type = "T_END"
       THEN Return(strbuf_free(r1.m, r1.m.tmpid))
       ELSE With(Call("ckv_process_value", <<r1.m, r1.t>>), LAMBDA M2 :
                With(Call("ckv_next_token", <<M2, r1.t>>), LAMBDA r2 :
                With(Call("ckv_process_value", <<r2.m, r2.t>>), LAMBDA M3 :
            IF ~Running(M2) THEN M2
               ELSE IF ~Running(M3) THEN M3
               ELSE Return(strbuf_free(lua_rawset3(M3), M3.tmpid))))))))

\* ckv_decode2(l): as ckv_decode, the value in the array context
ckv_decode2(data, cfg) ==
    With(NewParse(data, cfg), LAMBDA M0 :
    IF IsUtf16(data) THEN luaL_error(M0, Utf16Msg, 0)
    ELSE
    With(lua_newtable(strbuf_new_tmp(M0, "tmp")), LAMBDA M1 :
        With(Call("ckv_next_token", <<M1, FreshToken>>), LAMBDA r1 :
    IF ~Running(r1.m) THEN r1.m
       ELSE IF r1.t.type = "T_END"
       THEN Return(strbuf_free(r1.m, r1.m.tmpid))
       ELSE With(Call("ckv_process_value", <<r1.m, r1.t>>), LAMBDA M2 :
                With(Call("ckv_next_token", <<M2, r1.t>>), LAMBDA r2 :
                With(Call("ckv_process_value2", <<r2.m, r2.t>>), LAMBDA M3 :
            IF ~Running(M2) THEN M2
               ELSE IF ~Running(M3) THEN M3
               ELSE Return(strbuf_free(lua_rawset3(M3), M3.tmpid))))))))

(***************************************************************************)
(* KV0 (lua_kv.c): the emitters encode, encode2.  An emit state is         *)
(* [out, status, msg]: the bytes in the encode buffer and how the call     *)
(* stands.                                                                 *)
(***************************************************************************)
\* keep is cfg->encode_keep_buffer of the call, frees the number of
\* strbuf_free calls on the buffer that the call writes to
NewEmit ==
    [out |-> <<>>, status |-> "run", ub |-> FALSE, msg |-> "",
     keep |-> FALSE, frees |-> 0]

\* strbuf_reset: the buffer is kept and its length is set to 0
strbuf_reset(buf) == <<>>

\* the buffer an encode entry point starts with: a private buffer after
\* strbuf_init, or the buffer of the configuration after strbuf_reset
EncodeBuffer(cfg) ==
    IF ~cfg.encode_keep_buffer THEN NewEmit
    ELSE [NewEmit EXCEPT !.keep = TRUE, !.out = strbuf_reset(cfg.encode_buf)]

\* strbuf_free(buf) whatever encode_keep_buffer is
FreeAlways(E) == [E EXCEPT !.frees = @ + 1]

\* if (!cfg->encode_keep_buffer) strbuf_free(buf)
FreeUnlessKept(E) == IF ~E.keep THEN [E EXCEPT !.frees = @ + 1] ELSE E

Emit(E, bytes) == [E EXCEPT !.out = @ \o bytes]
EmitError(E, msg) == [E EXCEPT !.status = "error", !.msg = msg]
EmitUndefined(E, what) ==
    [E EXCEPT !.status = "ub", !.ub = TRUE, !.msg = what]

ckv_encode_exception(E, reason) == EmitError(FreeUnlessKept(E), reason)

Tabs(n) == IF n > 0 THEN [i \in 1..n |-> TAB] ELSE <<>>

\* char2escape[ch], the escape table of the emitters (lua-cjson's table;
\* its definition is in the header that the sources include): <<>> for
\* a byte that is emitted as it is
char2escape(ch) ==
    IF ch = DQ THEN <<BS, DQ>>
    ELSE IF ch = BS THEN <<BS, BS>>
    ELSE IF ch = "/" THEN <<BS, "/">>
    ELSE IF ch = "BSP" THEN <<BS, "b">>
    ELSE IF ch = TAB THEN <<BS, "t">>
    ELSE IF ch = LF THEN <<BS, "n">>
    ELSE IF ch = "\f" THEN <<BS, "f">>
    ELSE IF ch = CR THEN <<BS, "r">>
    ELSE <<>>

RECURSIVE EscapeBytes(_)
EscapeBytes(str) ==
    IF str = <<>> THEN <<>>
    ELSE (IF char2escape(Head(str)) # <<>> THEN char2escape(Head(str))
          ELSE <<Head(str)>>) \o EscapeBytes(Tail(str))

\* lua_tolstring(l, lindex, &len): a string is itself, a number is
\* converted, anything else gives NULL with len = 0
lua_tolstring(v) ==
    IF v.t = "str" THEN v.s
    ELSE IF v.t = "num" THEN fpconv_g_fmt(v.n)
    ELSE <<>>

ckv_append_string(E, v) ==
    Emit(E, <<DQ>> \o EscapeBytes(lua_tolstring(v)) \o <<DQ>>)

\* the numbers of the model are finite
ckv_append_number(E, v) == Emit(E, fpconv_g_fmt(v.n))

ckv_encode_depth_allowed(cfg, depth) ==
    depth <= cfg.encode_max_depth /\ lua_checkstack(3)

ExcessiveNesting == "Cannot serialise, excessive nesting"

\* E at the return of ckv_check_encode_depth, or at its raise
ckv_check_encode_depth(E, cfg, depth) ==
    IF ckv_encode_depth_allowed(cfg, depth) THEN E
    ELSE EmitError(FreeUnlessKept(E), ExcessiveNesting)

IsArrayKey(k) == k.t = "num" /\ k.n >= 1

\* lua_array_length: -1 not an array, -2 the raise "excessively sparse
\* array", otherwise the largest key
lua_array_length(cfg, tb) ==
    IF \E i \in 1..Len(tb.e) : ~IsArrayKey(tb.e[i].k) THEN -1
    ELSE With(Len(tb.e), LAMBDA items :
             With(IF items = 0 THEN 0
                    ELSE CHOOSE m \in {tb.e[i].k.n : i \in 1..items} :
                           \A i \in 1..items : tb.e[i].k.n <= m, LAMBDA max :
         IF /\ cfg.encode_sparse_ratio > 0
               /\ max > items * cfg.encode_sparse_ratio
               /\ max > cfg.encode_sparse_safe
            THEN IF cfg.encode_sparse_convert THEN -1 ELSE -2
            ELSE max))

RECURSIVE ckv_append_data(_, _, _, _)
RECURSIVE ckv_append_data2(_, _, _, _)
RECURSIVE ckv_object_entries(_, _, _, _, _)
RECURSIVE ckv_array_pairs(_, _, _, _, _, _)

\* the while (lua_next) of ckv_append_object, from entry i on
ckv_object_entries(E, cfg, depth, tb, i) ==
    IF ~(E.status = "run") \/ i > Len(tb.e) THEN E
    ELSE IF tb.e[i].k.t = "num"
    THEN EmitUndefined(E, "lua_tolstring changes a key during lua_next")
    ELSE With(Emit(E, IF cfg.keepln THEN Tabs(depth) ELSE <<>>), LAMBDA E1 :
             With(Emit(Call("ckv_append_string", <<E1, tb.e[i].k>>), <<TAB>>), LAMBDA E2 :
             With(Call("ckv_append_data", <<E2, cfg, depth, tb.e[i].v>>), LAMBDA E3 :
             With(IF E3.status = "run" /\ cfg.keepln THEN Emit(E3, <<LF>>)
                   ELSE E3, LAMBDA E4 :
         Call("ckv_object_entries", <<E4, cfg, depth, tb, i + 1>>)))))

\* '{' with its leading line break, shared by objects and arrays
OpenBrace(cfg, depth) ==
    IF cfg.keepln THEN <<LF>> \o Tabs(depth - 1) \o <<"{", LF>> ELSE <<"{">>

CloseBrace(cfg, depth) ==
    IF cfg.keepln THEN Tabs(depth - 1) \o <<"}">> ELSE <<"}">>

ckv_append_object(E, cfg, depth, tb) ==
    With(Call("ckv_object_entries", <<Emit(E, OpenBrace(cfg, depth)), cfg, depth,
                                 tb, 1>>), LAMBDA E1 :
    IF E1.status = "run" THEN Emit(E1, CloseBrace(cfg, depth)) ELSE E1)

\* the for (i = 1; i <= array_length; i += 2) of ckv_append_array
ckv_array_pairs(E, cfg, depth, tb, i, n) ==
    IF ~(E.status = "run") \/ i > n THEN E
    ELSE With(Emit(E, IF cfg.keepln THEN Tabs(depth) ELSE <<>>), LAMBDA E1 :
             With(Call("ckv_append_data2", <<E1, cfg, depth, TblGet(tb, LNum(i))>>), LAMBDA E2 :
             With(IF E2.status = "run" THEN Emit(E2, <<TAB>>) ELSE E2, LAMBDA E3 :
             With(Call("ckv_append_data2", <<E3, cfg, depth, TblGet(tb, LNum(i + 1))>>), LAMBDA E4 :
             With(IF E4.status = "run" /\ cfg.keepln THEN Emit(E4, <<LF>>)
                   ELSE E4, LAMBDA E5 :
         Call("ckv_array_pairs", <<E5, cfg, depth, tb, i + 2, n>>))))))

ckv_append_array(E, cfg, depth, tb, array_length) ==
    With(Call("ckv_array_pairs", <<Emit(E, OpenBrace(cfg, depth)), cfg, depth,
                              tb, 1, array_length>>), LAMBDA E1 :
    IF E1.status = "run" THEN Emit(E1, CloseBrace(cfg, depth)) ELSE E1)

NullBytes == <<"n", "u", "l", "l">>

ckv_append_data(E, cfg, depth, v) ==
    IF ~(E.status = "run") THEN E
    ELSE IF v.t = "str" THEN Call("ckv_append_string", <<E, v>>)
    ELSE IF v.t = "tbl"
    THEN With(Call("ckv_check_encode_depth", <<E, cfg, depth + 1>>), LAMBDA E1 :
         IF E1.status = "run" THEN Call("ckv_append_object", <<E1, cfg, depth + 1, v>>)
         ELSE E1)
    ELSE IF v.t = "nil" THEN Emit(E, NullBytes)
    ELSE IF v.t = "num" THEN Call("ckv_append_number", <<E, v>>)
    ELSE IF v.t = "null" THEN Emit(E, NullBytes)
    ELSE ckv_encode_exception(E, "Cannot serialise: type not supported")

ckv_append_data2(E, cfg, depth, v) ==
    IF ~(E.status = "run") THEN E
    ELSE IF v.t = "str" THEN Call("ckv_append_string", <<E, v>>)
    ELSE IF v.t = "tbl"
    THEN With(Call("ckv_check_encode_depth", <<E, cfg, depth + 1>>), LAMBDA E1 :
             With(lua_array_length(cfg, v), LAMBDA len :
         IF ~(E1.status = "run") THEN E1
            ELSE IF len = -2
            THEN ckv_encode_exception(E1, "Cannot serialise: excessively sparse array")
            ELSE Call("ckv_append_array", <<E1, cfg, depth + 1, v, len>>)))
    ELSE IF v.t = "nil" THEN Emit(E, NullBytes)
    ELSE IF v.t = "num" THEN Call("ckv_append_number", <<E, v>>)
    ELSE IF v.t = "null" THEN Emit(E, NullBytes)
    ELSE ckv_encode_exception(E, "Cannot serialise: type not supported")

\* the return of an encode entry point: the bytes are handed to Lua and a
\* private buffer is freed
EmitReturn(E) ==
    IF E.status = "run" THEN [FreeUnlessKept(E) EXCEPT !.status = "ok"] ELSE E

\* ckv_encode(l) of the table tb: lua_next once, then key TAB value.  On
\* an empty table lua_next pushes nothing and the indices -2 and -1 do
\* not address a key and a value.
ckv_encode(tb, cfg) ==
    IF tb.e = <<>>
    THEN EmitUndefined(EncodeBuffer(cfg), "stack index -2 below the only argument")
    ELSE With(Emit(Call("ckv_append_string", <<EncodeBuffer(cfg), tb.e[1].k>>), <<TAB>>), LAMBDA E1 :
         EmitReturn(Call("ckv_append_data", <<E1, cfg, 0, tb.e[1].v>>)))

ckv_encode2(tb, cfg) ==
    IF tb.e = <<>>
    THEN EmitUndefined(EncodeBuffer(cfg), "stack index -2 below the only argument")
    ELSE With(Emit(Call("ckv_append_string", <<EncodeBuffer(cfg), tb.e[1].k>>), <<TAB>>), LAMBDA E1 :
         EmitReturn(Call("ckv_append_data2", <<E1, cfg, 0, tb.e[1].v>>)))

(***************************************************************************)
(* KV0 file mode (lua_kv.c): decode_file_array, ckv_decode_file and the    *)
(* include pre-pass ckv_checkref.  files is the file system: a function    *)
(* from the paths that exist to the bytes of the file.  A file buffer is   *)
(* read as the input of decode is: its bytes and one terminator.           *)
(***************************************************************************)
IsSlash(ch) == ch = BS \/ ch = "/"

\* the offset + 1 of the last slash of the path, 0 when it has none
LastSlash(fullpath) ==
    IF \E i \in 1..Len(fullpath) : IsSlash(fullpath[i])
    THEN CHOOSE i \in 1..Len(fullpath) :
           /\ IsSlash(fullpath[i])
           /\ \A j \in (i + 1)..Len(fullpath) : ~IsSlash(fullpath[j])
    ELSE 0

ckv_get_filename(fullpath) ==
    SubSeq(fullpath, LastSlash(fullpath) + 1, Len(fullpath))

\* the file that fopen opens for a path: a doubled slash names the same
\* file as a single one
RECURSIVE NormalPath(_)
NormalPath(path) ==
    IF Len(path) < 2 THEN path
    ELSE IF Head(path) = "/" /\ path[2] = "/" THEN NormalPath(Tail(path))
    ELSE <<Head(path)>> \o NormalPath(Tail(path))

\* luaL_fileresult(l, 0, fname): nil, the message, errno
luaL_fileresult(M, fname) ==
    lua_push(lua_push(lua_push(M, LNil), LStr(fname)), LNum(2))

Utf8Msg == "ckv parser just support UTF-8"

HasBom(data) ==
    /\ At(data, 0) = ByteOf(239)
    /\ At(data, 1) = ByteOf(187)
    /\ At(data, 2) = ByteOf(191)

\* ptr++ until the byte is a quote: the offset of the first quote after
\* p, -1 when the loop leaves the buffer
RECURSIVE NextQuote(_, _)
NextQuote(data, p) ==
    With(At(data, p + 1), LAMBDA ch :
    IF ch = OOB THEN -1
    ELSE IF ch = DQ THEN p + 1
    ELSE NextQuote(data, p + 1))

\* the C string in a buffer: the bytes before the first NUL
RECURSIVE CString(_)
CString(bytes) ==
    IF bytes = <<>> \/ Head(bytes) = NUL THEN <<>>
    ELSE <<Head(bytes)>> \o CString(Tail(bytes))

\* what a call of ckv_decode_file leaves to the call that made it
Rejoin(M, child) ==
    [M EXCEPT !.stack = child.stack, !.bufs = child.bufs,
              !.dangling = child.dangling, !.errtok = child.errtok,
              !.ub = child.ub,
              !.maxdepth = Max2(@, child.maxdepth),
              !.attempt = Max2(@, child.attempt),
              !.low = Min2(@, child.low),
              !.slack = Min2(@, child.slack),
              !.spill = @ \/ child.spill,
              !.left = Max2(@, Max2(child.left,
                                    IF Running(child) THEN child.depth ELSE 0)),
              !.status = child.status, !.msg = child.msg, !.pos = child.pos,
              !.found = child.found, !.edata = child.edata,
              !.eptr = child.eptr]

RECURSIVE ckv_decode_file(_, _, _, _)
RECURSIVE ckv_checkref(_, _, _, _)

\* the body of ckv_decode_file after ckv_checkref
ckv_decode_file_body(M, fullpath) ==
    With(lua_newtable(lua_push(lua_newtable(M),
                                    LStr(ckv_get_filename(fullpath)))), LAMBDA M1 :
        With(Call("ckv_next_token", <<M1, FreshToken>>), LAMBDA r1 :
        With(Call("ckv_process_value", <<r1.m, r1.t>>), LAMBDA M2 :
        With(Call("ckv_next_token", <<M2, r1.t>>), LAMBDA r2 :
        With(Call("ckv_process_value2", <<r2.m, r2.t>>), LAMBDA M3 :
        With(IF ~Running(r1.m) THEN r1.m
              ELSE IF r1.t.type = "T_END" THEN r1.m
              ELSE IF ~Running(M2) THEN M2
              ELSE IF ~Running(M3) THEN M3
              ELSE lua_rawset3(M3), LAMBDA M4 :
    IF ~Running(M4) THEN M4
       ELSE strbuf_free(strbuf_free(lua_rawset3(M4), M4.tmpid), M4.fileid)))))))

\* S is the state of the caller: its Lua stack and the buffers so far
ckv_decode_file(S, files, fullpath, fuel) ==
    IF fuel = 0 THEN Undefined(S, "ckv_decode_file recursion without end")
    ELSE IF NormalPath(fullpath) \notin DOMAIN files
    THEN luaL_fileresult(S, fullpath)
    ELSE
    With(files[NormalPath(fullpath)], LAMBDA data :
        With([NewParse(data, S.cfg) EXCEPT
                  !.stack = S.stack, !.dangling = S.dangling,
                  !.errtok = S.errtok,
                  !.bufs = Append(S.bufs, [kind |-> "file", frees |-> 0]),
                  !.fileid = Len(S.bufs) + 1], LAMBDA M0 :
        With(IF HasBom(data) THEN [M0 EXCEPT !.ptr = 3] ELSE M0, LAMBDA M1 :
    IF ~HasBom(data) /\ ckv_ch2token(At(data, 0)) = "T_ERROR"
       THEN Rejoin(S, luaL_error(M0, Utf8Msg, 0))
       ELSE With(Call("ckv_checkref", <<strbuf_new_tmp(M1, "tmp"), files,
                                   fullpath, fuel>>), LAMBDA M2 :
            IF ~Running(M2) THEN Rejoin(S, M2)
               ELSE Rejoin(S, Call("ckv_decode_file_body", <<M2, fullpath>>))))))

\* the REF branch of ckv_checkref, p the offset of the '#'
ckv_include(M, files, fullpath, fuel, p) ==
    With(NextQuote(M.data, p), LAMBDA q1 :
        With(NextQuote(M.data, q1), LAMBDA q2 :
        With(CString(SubSeq(M.data, q1 + 2, q2)), LAMBDA buf :
        With(LastSlash(fullpath), LAMBDA dindex :
        With(SubSeq(fullpath, 1, dindex) \o <<"/">> \o buf, LAMBDA newfilepath :
    IF q1 < 0
       THEN ScanPast(M, "include scan past the end of the buffer")
       ELSE IF q2 < 0
       THEN [ScanPast(Wrote(M, Len(M.data) - q1),
                      "include scan past the end of the buffer")
                 EXCEPT !.spill = TRUE]
       ELSE IF dindex = 0
       THEN Undefined(Wrote(M, q2 - q1),
                      "dir[] is read without having been written")
       ELSE With(Wrote([M EXCEPT !.ptr = q2, !.tmp = buf], q2 - q1), LAMBDA M1 :
            Rejoin(M1, Call("ckv_decode_file", <<M1, files, newfilepath, fuel - 1>>))))))))

\* the while (1) of ckv_checkref
ckv_checkref(M, files, fullpath, fuel) ==
    With(M.ptr, LAMBDA p :
        With(At(M.data, p), LAMBDA ch :
        With(ckv_ch2token(ch), LAMBDA ty :
    IF ~Running(M) THEN M
       ELSE IF ch = OOB
       THEN ScanPast(M, "include pre-pass past the end of the buffer")
       ELSE IF ty = "T_WHITESPACE"
       THEN Call("ckv_checkref", <<[M EXCEPT !.ptr = p + 1], files, fullpath, fuel>>)
       ELSE IF ty = "T_COMMENT"
       THEN With(ckv_skip_comment(M.data, p), LAMBDA q :
            IF q < 0
            THEN ScanPast(M, "comment scan past the end of the buffer")
            ELSE Call("ckv_checkref", <<[M EXCEPT !.ptr = q + 1], files, fullpath,
                              fuel>>))
       ELSE IF ty = "T_REF"
       THEN With(Call("ckv_include", <<M, files, fullpath, fuel, p>>), LAMBDA M1 :
            IF ~Running(M1) THEN M1
            ELSE Call("ckv_checkref", <<[M1 EXCEPT !.ptr = @ + 1], files, fullpath,
                              fuel>>))
       ELSE M)))

\* ckv_decode_file_array(l): the argument is popped, a table is pushed,
\* and the value on top of the stack is returned
ckv_decode_file_array(filepath, files, cfg) ==
    Return(Call("ckv_decode_file", <<lua_newtable(NewParse(<<>>, cfg)), files,
                           filepath, MaxInclude>>))

(***************************************************************************)
(* KV1 (lua_kv1.c): classifier, string scanners, tokenizer                 *)
(***************************************************************************)
ckv1_ch2token(ch) ==
    IF ch = "{" THEN "T_OBJ_BEGIN"
    ELSE IF ch = "}" THEN "T_OBJ_END"
    ELSE IF ch = "[" THEN "T_ARR_BEGIN"
    ELSE IF ch = "]" THEN "T_ARR_END"
    ELSE IF ch = "," THEN "T_COMMA"
    ELSE IF ch = "=" THEN "T_COLON"
    ELSE IF ch = NUL THEN "T_END"
    ELSE IF ch \in {SP, TAB, LF, CR} THEN "T_WHITESPACE"
    ELSE IF ch \in {DQ, "+", "-", "<"} \cup Digits \cup Lower \cup Upper
         THEN "T_UNKNOWN"
    ELSE "T_ERROR"

\* while (ch == '\\') { ptr++; ch = *ptr; }: the offset of the first byte
\* at or after p that is no backslash
RECURSIVE SkipBackslashes(_, _)
SkipBackslashes(data, p) ==
    IF At(data, p) = BS THEN SkipBackslashes(data, p + 1) ELSE p

\* a scanner that keeps one backslash of the run
ScannedBytesKept(data, p, q) ==
    IF q > p THEN <<BS, At(data, q)>> ELSE <<At(data, q)>>

\* what one turn of a scanner loop appends for the bytes p..q, q the
\* end of the backslash run that starts at p
ScannedBytes(data, p, q) ==
    IF q > p THEN <<"/", At(data, q)>> ELSE <<At(data, q)>>

\* the loop of ckv1_next_string_token from the byte after the quote:
\* [st, p, s] with st "ok", "err" (end of input) or "ub" (a read past
\* the terminator of the input)
RECURSIVE ckv1_scan_string(_, _, _)
ckv1_scan_string(data, p, acc) ==
    With(At(data, p), LAMBDA ch :
    IF ch = OOB THEN [st |-> "ub", p |-> p, s |-> acc]
    ELSE IF ch = DQ THEN [st |-> "ok", p |-> p + 1, s |-> acc]
    ELSE IF ch = NUL THEN [st |-> "err", p |-> p, s |-> acc]
    ELSE With(SkipBackslashes(data, p), LAMBDA q :
         ckv1_scan_string(data, q + 1, acc \o ScannedBytes(data, p, q))))

\* the bytes that end a bare string
BareStop == {SP, TAB, CR, LF, "="}

\* the loop of ckv1_next_string_token_noquote
RECURSIVE ckv1_scan_noquote(_, _, _)
ckv1_scan_noquote(data, p, acc) ==
    With(At(data, p), LAMBDA ch :
    IF ch = OOB THEN [st |-> "ub", p |-> p, s |-> acc]
    ELSE IF ch \in BareStop THEN [st |-> "ok", p |-> p, s |-> acc]
    ELSE IF ch = NUL THEN [st |-> "err", p |-> p, s |-> acc]
    ELSE With(SkipBackslashes(data, p), LAMBDA q :
         ckv1_scan_noquote(data, q + 1, acc \o ScannedBytes(data, p, q))))

\* the token and parse state after a scanner loop ended as r
ScanResult(M, tok, r) ==
    With(Wrote([M EXCEPT !.ptr = r.p, !.tmp = r.s],
               Len(r.s) + (IF r.st = "ok" THEN 1 ELSE 0)), LAMBDA M1 :
    IF r.st = "ub"
    THEN [m |-> [ScanPast(M1, "string scan past the end of the input")
                     EXCEPT !.spill = TRUE],
          t |-> tok]
    ELSE IF r.st = "err"
    THEN [m |-> M1,
          t |-> set_token_error(tok, M1, "unexpected end of string")]
    ELSE [m |-> M1, t |-> set_token_string(tok, r.s)])

ckv1_next_string_token(M, tok) ==
    IF At(M.data, M.ptr) # DQ
    THEN [m |-> Undefined(M, "assert(*ckv1->ptr == '\"')"), t |-> tok]
    ELSE Call("ScanResult", <<M, tok, ckv1_scan_string(M.data, M.ptr + 1, <<>>)>>)

ckv1_next_string_token_noquote(M, tok) ==
    Call("ScanResult", <<M, tok, ckv1_scan_noquote(M.data, M.ptr, <<>>)>>)

ckv1_is_invalid_number(data, ptr) ==
    IF At(data, ptr) = "+" THEN TRUE
    ELSE With(IF At(data, ptr) = "-" THEN ptr + 1 ELSE ptr, LAMBDA p :
         IF At(data, p) = "0"
         THEN At(data, p + 1) \in {"x", "X"} \cup Digits
         ELSE IF At(data, p) \in UpToNine THEN FALSE
         ELSE \/ HasPrefix3(data, p, {"i", "I"}, {"n", "N"}, {"f", "F"})
              \/ HasPrefix3(data, p, {"n", "N"}, {"a", "A"}, {"n", "N"}))

ckv1_next_number_token(M, tok) ==
    With(fpconv_strtod(M.data, M.ptr), LAMBDA r :
    IF r.end = M.ptr
    THEN [m |-> M,
          t |-> set_token_error([tok EXCEPT !.type = "T_NUMBER", !.sv = "num",
                                            !.num = r.val],
                                M, "invalid number")]
    ELSE [m |-> [M EXCEPT !.ptr = r.end],
          t |-> [tok EXCEPT !.type = "T_NUMBER", !.sv = "num", !.num = r.val]])

RECURSIVE SkipWhitespace(_, _)
SkipWhitespace(data, p) ==
    IF At(data, p) \in {SP, TAB, LF, CR} THEN SkipWhitespace(data, p + 1)
    ELSE p

\* the loop that looks for "-->" from offset p with offset bytes of it
\* matched: the offset after the '>' or -1 when the loop leaves the input
RECURSIVE ckv1_skip_comment(_, _, _)
ckv1_skip_comment(data, p, offset) ==
    With(At(data, p), LAMBDA ch :
        With(<<"-", "-", ">">>, LAMBDA skips2 :
    IF ch = OOB THEN -1
       ELSE IF ch = skips2[offset + 1]
       THEN IF offset + 1 = 3 THEN p + 1
            ELSE ckv1_skip_comment(data, p + 1, offset + 1)
       ELSE ckv1_skip_comment(data, p + 1, 0)))

\* the test "<!--" at p, p the offset of a '<': [mark, ch], ch the last
\* byte the loop read
CommentMark(data, p) ==
    IF At(data, p + 1) # "!" THEN [mark |-> FALSE, ch |-> At(data, p + 1)]
    ELSE IF At(data, p + 2) # "-"
    THEN [mark |-> FALSE, ch |-> At(data, p + 2)]
    ELSE IF At(data, p + 3) # "-"
    THEN [mark |-> FALSE, ch |-> At(data, p + 3)]
    ELSE [mark |-> TRUE, ch |-> "-"]

\* the part of ckv1_next_token after white space and one comment were
\* passed: the cursor is p, ch and ty are the locals ch and token->type
ckv1_token_at(M, tok, isKey, p, ch, ty) ==
    With([M EXCEPT !.ptr = p], LAMBDA M1 :
        With([tok EXCEPT !.type = ty, !.index = p], LAMBDA t1 :
    IF ty = "T_ERROR"
       THEN [m |-> M1, t |-> set_token_error(t1, M1, "invalid token")]
       ELSE IF ty = "T_END" THEN [m |-> M1, t |-> t1]
       ELSE IF ch \in Lower \cup Upper
       THEN Call("ckv1_next_string_token_noquote", <<M1, t1>>)
       ELSE IF (ch \in Digits \/ ch = "-") /\ isKey = 1
       THEN Call("ckv1_next_string_token_noquote", <<M1, t1>>)
       ELSE IF ty # "T_UNKNOWN"
       THEN [m |-> [M1 EXCEPT !.ptr = p + 1], t |-> t1]
       ELSE IF ch = DQ THEN Call("ckv1_next_string_token", <<M1, t1>>)
       ELSE IF ch = "-" \/ ch \in Digits
       THEN IF ~M.cfg.decode_invalid_numbers
               /\ ckv1_is_invalid_number(M.data, p)
            THEN [m |-> M1, t |-> set_token_error(t1, M1, "invalid number")]
            ELSE Call("ckv1_next_number_token", <<M1, t1>>)
       ELSE IF M.cfg.decode_invalid_numbers
               /\ ckv1_is_invalid_number(M.data, p)
       THEN Call("ckv1_next_number_token", <<M1, t1>>)
       ELSE [m |-> M1, t |-> set_token_error(t1, M1, "invalid token")]))

ckv1_next_token(M, tok, isKey) ==
    Yield(
    With(SkipWhitespace(M.data, M.ptr), LAMBDA p0 :
        With(At(M.data, p0), LAMBDA ch0 :
    IF ch0 # "<"
       THEN Call("ckv1_token_at", <<M, tok, isKey, p0, ch0, ckv1_ch2token(ch0)>>)
       ELSE With(CommentMark(M.data, p0), LAMBDA c :
            IF ~c.mark
            THEN Call("ckv1_token_at", <<M, tok, isKey, p0, c.ch, ckv1_ch2token(ch0)>>)
            ELSE With(ckv1_skip_comment(M.data, p0 + 4, 0), LAMBDA q :
                 IF q < 0
                 THEN [m |-> ScanPast(M, "comment scan past the input"),
                       t |-> tok]
                 ELSE With(SkipWhitespace(M.data, q), LAMBDA p1 :
                          With(At(M.data, p1), LAMBDA ch1 :
                      Call("ckv1_token_at", <<M, tok, isKey, p1, ch1,
                                       ckv1_ch2token(ch1)>>))))))))

(***************************************************************************)
(* KV1 (lua_kv1.c): parser and the entry points decode, decode_array       *)
(***************************************************************************)
ckv1_throw_parse_error(M, exp, tok) ==
    [luaL_error(strbuf_free(M, M.tmpid), ExpectedFound(exp, tok),
                tok.index + 1) EXCEPT !.found = tok.type]

\* an ascend that leaves current_depth as it is
ckv1_decode_ascend_kept(M) == M

ckv1_decode_ascend(M) ==
    [M EXCEPT !.depth = @ - 1, !.low = Min2(@, M.depth - 1)]

ckv1_descend_allowed(M, depth, slots) ==
    depth <= M.cfg.decode_max_depth /\ lua_checkstack(slots)

ckv1_decode_descend(M, slots) ==
    With(M.depth + 1, LAMBDA d :
        With([M EXCEPT !.depth = d, !.attempt = Max2(@, d)], LAMBDA M1 :
    IF Call("ckv1_descend_allowed", <<M, d, slots>>)
       THEN [M1 EXCEPT !.maxdepth = Max2(@, d)]
       ELSE luaL_error(strbuf_free(M1, M1.tmpid), TooDeep, M1.ptr)))

\* the HasNestKV3 step of both contexts: after a '{' as first token two
\* more tokens are read
NestKV3(M, tok) ==
    IF tok.type = "T_OBJ_BEGIN"
    THEN With(Call("ckv1_next_token", <<M, tok, 1>>), LAMBDA r1 :
             With(Call("ckv1_next_token", <<r1.m, r1.t, 1>>), LAMBDA r2 :
         [m |-> r2.m, t |-> r2.t, nest |-> 1]))
    ELSE [m |-> M, t |-> tok, nest |-> 0]

\* the end of a context: with HasNestKV3 one more token is read
CloseContext(M, tok, nest) ==
    With(IF nest = 1 THEN Call("ckv1_next_token", <<M, tok, 1>>).m ELSE M, LAMBDA M1 :
    IF Running(M1) THEN Call("ckv1_decode_ascend", <<M1>>) ELSE M1)

RECURSIVE ckv1_process_value(_, _)
RECURSIVE ckv1_object_loop(_, _, _)
RECURSIVE ckv1_array_loop(_, _, _, _, _, _)
RECURSIVE ckv1_maparray_loop(_, _, _)

ckv1_parse_object_context(M) ==
    With(Call("ckv1_decode_descend", <<M, 3>>), LAMBDA M1 :
    IF ~Running(M1) THEN M1
    ELSE With(Call("ckv1_next_token", <<lua_newtable(M1), FreshToken, 1>>), LAMBDA r :
         IF ~Running(r.m) THEN r.m
         ELSE IF r.t.type = "T_OBJ_END" THEN Call("ckv1_decode_ascend", <<r.m>>)
         ELSE With(Call("NestKV3", <<r.m, r.t>>), LAMBDA n :
              Call("ckv1_object_loop", <<n.m, n.t, n.nest>>))))

\* one turn of the while (1) of ckv1_parse_object_context
ckv1_object_loop(M, tok, nest) ==
    IF ~Running(M) THEN M
    ELSE IF tok.type # "T_STRING"
    THEN Call("ckv1_throw_parse_error", <<M, "object key string", tok>>)
    ELSE With(Call("ckv1_next_token", <<Call("push_token_string", <<M, tok>>), tok, 0>>), LAMBDA r1 :
             With(IF r1.t.type # "T_COLON" THEN r1
                   ELSE Call("ckv1_next_token", <<r1.m, r1.t, 0>>), LAMBDA rv :
             With(Call("ckv1_process_value", <<rv.m, rv.t>>), LAMBDA M2 :
         IF ~Running(M2) THEN M2
            ELSE With(Call("ckv1_next_token", <<lua_rawset3(M2), rv.t, 1>>), LAMBDA r2 :
                 IF ~Running(r2.m) THEN r2.m
                 ELSE IF r2.t.type = "T_OBJ_END"
                 THEN Call("CloseContext", <<r2.m, r2.t, nest>>)
                 ELSE Call("ckv1_object_loop", <<r2.m, r2.t, nest>>)))))

ArrayFlag == <<"_", "_", "I", "s", "A", "r", "r", "a", "y", "_", "_">>

ArrayEnd(tok, isObject) ==
    tok.type = "T_ARR_END" \/ (isObject = 1 /\ tok.type = "T_OBJ_END")

\* the "key = value" step of the array loop: [m, t, i, v]
ArrayColon(M, tok, i, v, isObject) ==
    With(IF isObject = 0 THEN lua_rawseti2(lua_push(M, LNum(v)), i)
              ELSE M, LAMBDA Ma :
        With(IF isObject = 0 THEN i + 1 ELSE i, LAMBDA ia :
        With(IF isObject = 0 THEN v + 1 ELSE v, LAMBDA va :
        With(Call("ckv1_next_token", <<Ma, tok, 0>>), LAMBDA r3 :
        With(Call("ckv1_process_value", <<r3.m, r3.t>>), LAMBDA M3 :
    IF ~Running(M3) THEN [m |-> M3, t |-> r3.t, i |-> ia, v |-> va]
       ELSE With(Call("ckv1_next_token", <<lua_rawseti2(M3, ia), r3.t, 1>>), LAMBDA r4 :
            [m |-> r4.m, t |-> r4.t, i |-> ia + 1, v |-> va]))))))

\* one turn of the while (1) of ckv1_parse_array_context, array mode
ckv1_array_loop(M, tok, i, v, isObject, nest) ==
    With(Call("ckv1_process_value", <<M, tok>>), LAMBDA M1 :
    IF ~Running(M1) THEN M1
    ELSE With(Call("ckv1_next_token", <<lua_rawseti2(M1, i), tok, 0>>), LAMBDA r1 :
             With(IF r1.t.type = "T_COMMA"
                   THEN Call("ckv1_next_token", <<r1.m, r1.t, 1>>) ELSE r1, LAMBDA r2 :
             With(IF Running(r2.m) /\ r2.t.type = "T_COLON"
                   THEN Call("ArrayColon", <<r2.m, r2.t, i + 1, v, isObject>>)
                   ELSE [m |-> r2.m, t |-> r2.t, i |-> i + 1, v |-> v], LAMBDA st :
         IF ~Running(st.m) THEN st.m
            ELSE IF ArrayEnd(st.t, isObject)
            THEN Call("CloseContext", <<st.m, st.t, nest>>)
            ELSE Call("ckv1_array_loop", <<st.m, st.t, st.i, st.v, isObject, nest>>)))))

\* one turn of the for (i = 1; ; i++) of ckv1_parse_array_context, map mode
ckv1_maparray_loop(M, tok, i) ==
    With(Call("ckv1_process_value", <<M, tok>>), LAMBDA M1 :
    IF ~Running(M1) THEN M1
    ELSE With(Call("ckv1_next_token", <<lua_rawseti2(M1, i), tok, 0>>), LAMBDA r1 :
         IF ~Running(r1.m) THEN r1.m
         ELSE IF r1.t.type = "T_ARR_END" THEN Call("ckv1_decode_ascend", <<r1.m>>)
         ELSE With(Call("ckv1_next_token", <<r1.m, r1.t, 0>>), LAMBDA r2 :
              IF ~Running(r2.m) THEN r2.m
              ELSE IF r2.t.type = "T_ARR_END" THEN Call("ckv1_decode_ascend", <<r2.m>>)
              ELSE Call("ckv1_maparray_loop", <<r2.m, r2.t, i + 1>>))))

ckv1_parse_array_context(M, isObject) ==
    With(Call("ckv1_decode_descend", <<M, IF isObject = 1 THEN 3 ELSE 2>>), LAMBDA M1 :
    IF ~Running(M1) THEN M1
    ELSE With(Call("ckv1_next_token", <<lua_newtable(M1), FreshToken, isObject>>), LAMBDA r :
         IF ~Running(r.m) THEN r.m
         ELSE IF ArrayEnd(r.t, isObject) THEN Call("ckv1_decode_ascend", <<r.m>>)
         ELSE With(Call("NestKV3", <<r.m, r.t>>), LAMBDA n :
              IF ~Running(n.m) THEN n.m
              ELSE IF M.loadType = "LoadType_Array"
              THEN IF isObject = 0
                   THEN Call("ckv1_array_loop", <<
                            lua_rawseti2(lua_push(n.m, LStr(ArrayFlag)), 1),
                            n.t, 2, 1, isObject, n.nest>>)
                   ELSE Call("ckv1_array_loop", <<n.m, n.t, 1, 1, isObject, n.nest>>)
              ELSE Call("ckv1_maparray_loop", <<n.m, n.t, 1>>))))

ckv1_process_value(M, tok) ==
    IF ~Running(M) THEN M
    ELSE IF tok.type = "T_STRING" THEN Call("push_token_string", <<M, tok>>)
    ELSE IF tok.type = "T_NUMBER" THEN lua_push(M, LNum(tok.num))
    ELSE IF tok.type = "T_BOOLEAN" THEN lua_push(M, LBool(tok.num # 0))
    ELSE IF tok.type = "T_OBJ_BEGIN"
    THEN IF M.loadType = "LoadType_Array" THEN Call("ckv1_parse_array_context", <<M, 1>>)
         ELSE Call("ckv1_parse_object_context", <<M>>)
    ELSE IF tok.type = "T_ARR_BEGIN" THEN Call("ckv1_parse_array_context", <<M, 0>>)
    ELSE IF tok.type = "T_NULL" THEN lua_push(M, LNull)
    ELSE Call("ckv1_throw_parse_error", <<M, "value", tok>>)

Kv1Utf16Msg == "KV parser does not support UTF-16 or UTF-32"

\* the while (1) of ckv1_decode from "Push key" on
RECURSIVE ckv1_decode_loop(_, _)
ckv1_decode_loop(M, tok) ==
    With(Call("push_token_string", <<M, tok>>), LAMBDA Mk :
        With(Call("ckv1_next_token", <<Mk, tok, 0>>), LAMBDA r1 :
        With(IF r1.t.type = "T_COLON" THEN Call("ckv1_next_token", <<r1.m, r1.t, 0>>)
              ELSE r1, LAMBDA rv :
        With(Call("ckv1_process_value", <<rv.m, rv.t>>), LAMBDA M2 :
    IF ~Running(Mk) THEN Mk
       ELSE IF ~Running(M2) THEN M2
       ELSE With(Call("ckv1_next_token", <<lua_rawset3(M2), rv.t, 1>>), LAMBDA r2 :
            IF ~Running(r2.m) THEN r2.m
            ELSE IF r2.t.type = "T_END" THEN r2.m
            ELSE Call("ckv1_decode_loop", <<r2.m, r2.t>>))))))

\* "the end" is expected after a top-level '{ ... }'
ExpectEnd(M, tok) ==
    With(Call("ckv1_next_token", <<M, tok, 0>>), LAMBDA r :
    IF ~Running(M) THEN M
    ELSE IF ~Running(r.m) THEN r.m
    ELSE IF r.t.type # "T_END"
    THEN Call("ckv1_throw_parse_error", <<r.m, "the end", r.t>>)
    ELSE r.m)

\* ckv1_decode(l).  The argument stays on the stack below the table.
ckv1_decode(data, cfg) ==
    With(lua_push(NewParse(data, cfg), LStr(data)), LAMBDA M0 :
    IF IsUtf16(data) THEN luaL_error(M0, Kv1Utf16Msg, 0)
    ELSE
    With(lua_newtable(strbuf_new_tmp(M0, "tmp")), LAMBDA M1 :
        With(Call("ckv1_next_token", <<M1, FreshToken, 1>>), LAMBDA r1 :
        With(IF ~Running(r1.m) THEN r1.m
              ELSE IF r1.t.type = "T_STRING" THEN Call("ckv1_decode_loop", <<r1.m, r1.t>>)
              ELSE IF r1.t.type = "T_OBJ_BEGIN"
              THEN Call("ExpectEnd", <<Call("ckv1_process_value", <<r1.m, r1.t>>), r1.t>>)
              ELSE r1.m, LAMBDA M2 :
    IF Running(M2) THEN Return(strbuf_free(M2, M2.tmpid)) ELSE M2))))

\* the for (;;) of ckv1_decode_array
RECURSIVE ckv1_decode_array_loop(_, _, _)
ckv1_decode_array_loop(M, tok, i) ==
    With(Call("ckv1_process_value", <<M, tok>>), LAMBDA M1 :
        With(Call("ckv1_next_token", <<lua_rawseti2(M1, i), tok, 0>>), LAMBDA r1 :
        With(IF r1.t.type = "T_COLON" THEN Call("ckv1_next_token", <<r1.m, r1.t, 0>>)
              ELSE r1, LAMBDA rv :
        With(Call("ckv1_process_value", <<rv.m, rv.t>>), LAMBDA M2 :
    IF ~Running(M1) THEN M1
       ELSE IF ~Running(M2) THEN M2
       ELSE With(Call("ckv1_next_token", <<lua_rawseti2(M2, i + 1), rv.t, 1>>), LAMBDA r2 :
            IF ~Running(r2.m) THEN r2.m
            ELSE IF r2.t.type = "T_END" THEN r2.m
            ELSE Call("ckv1_decode_array_loop", <<r2.m, r2.t, i + 2>>))))))

ckv1_decode_array(data, cfg) ==
    With(lua_push([NewParse(data, cfg) EXCEPT
                           !.loadType = "LoadType_Array"], LStr(data)), LAMBDA M0 :

    IF IsUtf16(data) THEN luaL_error(M0, Kv1Utf16Msg, 0)
    ELSE
    With(lua_newtable(strbuf_new_tmp(M0, "tmp")), LAMBDA M1 :
        With(Call("ckv1_next_token", <<M1, FreshToken, 1>>), LAMBDA r1 :
        With(Call("ckv1_process_value", <<r1.m, r1.t>>), LAMBDA Mv :
        With(IF ~Running(r1.m) THEN r1.m
              ELSE IF r1.t.type = "T_OBJ_BEGIN"
              THEN IF Running(Mv) THEN Call("ExpectEnd", <<lua_rawseti2(Mv, 1), r1.t>>)
                   ELSE Mv
              ELSE IF r1.t.type = "T_END" THEN r1.m
              ELSE Call("ckv1_decode_array_loop", <<r1.m, r1.t, 1>>), LAMBDA M2 :
    IF Running(M2) THEN Return(strbuf_free(M2, M2.tmpid)) ELSE M2)))))

(***************************************************************************)
(* KV1 (lua_kv1.c): the emitters encode, encode_array.  lt is the static   *)
(* loadType that the entry point set.                                      *)
(***************************************************************************)
\* the string without the quotes, whatever needQuote is
ckv1_append_string_bare(E, v, needQuote) ==
    Emit(E, EscapeBytes(lua_tolstring(v)))

ckv1_append_string(E, v, needQuote) ==
    With(IF needQuote = 1 THEN <<DQ>> ELSE <<>>, LAMBDA q :
    Emit(E, q \o EscapeBytes(lua_tolstring(v)) \o q))

ckv1_append_number(E, v) == Emit(E, fpconv_g_fmt(v.n))

ckv1_encode_exception(E, reason) == EmitError(FreeUnlessKept(E), reason)

ckv1_encode_depth_allowed(cfg, depth) ==
    depth <= cfg.encode_max_depth /\ lua_checkstack(3)

ckv1_check_encode_depth(E, cfg, depth) ==
    IF ckv1_encode_depth_allowed(cfg, depth) THEN E
    ELSE EmitError(FreeUnlessKept(E), ExcessiveNesting)

KeyTypeMsg == "Cannot serialise: table key must be a number or string"

\* the key and the '=' of an entry, as ckv1_append_object and ckv1_encode
\* write them
ckv1_append_key(E, k) ==
    IF k.t = "num" THEN Emit(Call("ckv1_append_number", <<E, k>>), <<"=">>)
    ELSE IF k.t = "str" THEN Emit(Call("ckv1_append_string", <<E, k, 0>>), <<"=">>)
    ELSE ckv1_encode_exception(E, KeyTypeMsg)

RECURSIVE ckv1_append_data(_, _, _, _, _, _)
RECURSIVE ckv1_array_elems(_, _, _, _, _, _, _)
RECURSIVE ckv1_object_entries(_, _, _, _, _, _)
RECURSIVE ckv1_flat_pairs(_, _, _, _, _, _, _)
RECURSIVE ckv1_flag_elems(_, _, _, _, _, _, _)

\* the for loop of ckv1_append_array
ckv1_array_elems(E, cfg, depth, tb, i, n, lt) ==
    IF ~(E.status = "run") \/ i > n THEN E
    ELSE With(Emit(E, <<LF>> \o Tabs(depth)), LAMBDA E1 :
             With(Call("ckv1_append_data", <<E1, cfg, depth, TblGet(tb, LNum(i)), 1, lt>>), LAMBDA E2 :
             With(IF E2.status = "run" THEN Emit(E2, <<",">>) ELSE E2, LAMBDA E3 :
         Call("ckv1_array_elems", <<E3, cfg, depth, tb, i + 1, n, lt>>))))

ckv1_append_array(E, cfg, depth, tb, array_length, lt) ==
    With(Call("ckv1_array_elems", <<Emit(E, <<"[">>), cfg, depth, tb, 1,
                               array_length, lt>>), LAMBDA E1 :
    IF E1.status = "run"
       THEN Emit(E1, <<LF>> \o Tabs(depth - 1) \o <<"]">>)
       ELSE E1)

\* the while (lua_next) of ckv1_append_object; depth is current_depth
\* after its increment
ckv1_object_entries(E, cfg, depth, tb, i, lt) ==
    IF ~(E.status = "run") \/ i > Len(tb.e) THEN E
    ELSE With(Emit(E, <<LF>> \o Tabs(depth - 2)), LAMBDA E1 :
             With(Call("ckv1_append_key", <<E1, tb.e[i].k>>), LAMBDA E2 :
             With(Call("ckv1_append_data", <<E2, cfg, depth, tb.e[i].v, 1, lt>>), LAMBDA E3 :
         Call("ckv1_object_entries", <<E3, cfg, depth, tb, i + 1, lt>>))))

ckv1_append_object(E, cfg, depth, tb, lt) ==
    With(Call("ckv1_object_entries", <<Emit(E, <<"{">>), cfg, depth + 1, tb, 1, lt>>), LAMBDA E1 :
    IF E1.status = "run"
       THEN Emit(E1, <<LF>> \o Tabs(depth + 1 - 3) \o <<"}">>)
       ELSE E1)

\* the loop of the '{' branch of ckv1_append_object_array
ckv1_flat_pairs(E, cfg, depth, tb, i, n, lt) ==
    IF ~(E.status = "run") \/ i > n THEN E
    ELSE With(Call("ckv1_append_data", <<Emit(E, Tabs(depth)), cfg, depth,
                                    TblGet(tb, LNum(i)), 0, lt>>), LAMBDA E1 :
             With(IF E1.status = "run" THEN Emit(E1, <<"=">>) ELSE E1, LAMBDA E2 :
             With(Call("ckv1_append_data", <<E2, cfg, depth, TblGet(tb, LNum(i + 1)),
                                    1, lt>>), LAMBDA E3 :
             With(IF E3.status = "run" THEN Emit(E3, <<LF>>) ELSE E3, LAMBDA E4 :
         Call("ckv1_flat_pairs", <<E4, cfg, depth, tb, i + 2, n, lt>>)))))

\* the loop of the '[' branch of ckv1_append_object_array
ckv1_flag_elems(E, cfg, depth, tb, i, n, lt) ==
    IF ~(E.status = "run") \/ i > n THEN E
    ELSE With(Call("ckv1_append_data", <<Emit(E, Tabs(depth) \o <<DQ>>), cfg,
                                    depth, TblGet(tb, LNum(i)), 0, lt>>), LAMBDA E1 :
             With(IF E1.status = "run" THEN Emit(E1, <<DQ, ",", LF>>)
                   ELSE E1, LAMBDA E2 :
         Call("ckv1_flag_elems", <<E2, cfg, depth, tb, i + 1, n, lt>>)))

ckv1_append_object_array(E, cfg, depth, tb, array_length, lt) ==
    With(Emit(E, <<LF>> \o Tabs(depth - 1)), LAMBDA E0 :
        With(TblGet(tb, LNum(1)), LAMBDA first :
    IF first.t \notin {"str", "num"}
       THEN EmitUndefined(E0, "strcmp(NULL, ...)")
       ELSE IF lua_tolstring(first) # ArrayFlag
       THEN With(Call("ckv1_flat_pairs", <<Emit(E0, <<"{", LF>>), cfg, depth, tb,
                                      1, array_length, lt>>), LAMBDA E1 :
            IF E1.status = "run"
               THEN Emit(E1, Tabs(depth - 1) \o <<"}">>) ELSE E1)
       ELSE With(Call("ckv1_flag_elems", <<Emit(E0, <<"[", LF>>), cfg, depth, tb,
                                      2, array_length, lt>>), LAMBDA E1 :
            IF E1.status = "run"
               THEN Emit(E1, Tabs(depth - 1) \o <<"]">>) ELSE E1)))

ckv1_append_data(E, cfg, depth, v, needQuot, lt) ==
    IF ~(E.status = "run") THEN E
    ELSE IF v.t = "str" THEN Call("ckv1_append_string", <<E, v, needQuot>>)
    ELSE IF v.t = "num" THEN Call("ckv1_append_number", <<E, v>>)
    ELSE IF v.t = "bool"
    THEN Emit(E, IF v.n # 0 THEN <<"t", "r", "u", "e">>
                 ELSE <<"f", "a", "l", "s", "e">>)
    ELSE IF v.t = "tbl"
    THEN With(Call("ckv1_check_encode_depth", <<E, cfg, depth + 1>>), LAMBDA E1 :
             With(lua_rawlen(v), LAMBDA array_length :
         IF ~(E1.status = "run") THEN E1
            ELSE IF lt = "LoadType_Array"
            THEN Call("ckv1_append_object_array", <<E1, cfg, depth + 1, v,
                                          array_length, lt>>)
            ELSE IF array_length > 0
            THEN Call("ckv1_append_array", <<E1, cfg, depth + 1, v, array_length, lt>>)
            ELSE Call("ckv1_append_object", <<E1, cfg, depth + 1, v, lt>>)))
    ELSE IF v.t = "nil" THEN Emit(E, NullBytes)
    ELSE IF v.t = "null" THEN Emit(E, NullBytes)
    ELSE ckv1_encode_exception(E, "Cannot serialise: type not supported")

\* the while (lua_next) of ckv1_encode
RECURSIVE ckv1_encode_entries(_, _, _, _)
ckv1_encode_entries(E, cfg, tb, i) ==
    IF ~(E.status = "run") \/ i > Len(tb.e) THEN E
    ELSE With(IF i > 1 THEN Emit(E, <<LF>>) ELSE E, LAMBDA E1 :
             With(Call("ckv1_append_key", <<E1, tb.e[i].k>>), LAMBDA E2 :
             With(Call("ckv1_append_data", <<E2, cfg, 0, tb.e[i].v, 1, "LoadType_Map">>), LAMBDA E3 :
         Call("ckv1_encode_entries", <<E3, cfg, tb, i + 1>>))))

ckv1_encode(tb, cfg) == EmitReturn(Call("ckv1_encode_entries", <<EncodeBuffer(cfg), cfg, tb, 1>>))

\* the for (n = 1; n <= MAX;) of ckv1_encode_array
RECURSIVE ckv1_encode_array_items(_, _, _, _, _)
ckv1_encode_array_items(E, cfg, tb, n, MAX) ==
    IF ~(E.status = "run") \/ n > MAX THEN E
    ELSE With(IF n > 1 THEN Emit(E, <<LF>>) ELSE E, LAMBDA E1 :
             With(TblGet(tb, LNum(n)), LAMBDA v1 :
             With(Call("ckv1_append_data", <<E1, cfg, 0, v1, 1, "LoadType_Array">>), LAMBDA E2 :
         IF v1.t # "tbl"
            THEN Call("ckv1_encode_array_items", <<
                     Call("ckv1_append_data", <<E2, cfg, 0, TblGet(tb, LNum(n + 1)), 1,
                                      "LoadType_Array">>),
                     cfg, tb, n + 2, MAX>>)
            ELSE Call("ckv1_encode_array_items", <<E2, cfg, tb, n + 1, MAX>>))))

ckv1_encode_array(tb, cfg) ==
    EmitReturn(Call("ckv1_encode_array_items", <<EncodeBuffer(cfg), cfg, tb, 1, lua_rawlen(tb)>>))

(***************************************************************************)
(* KV3 (lua_kv3.c).  The scanner of quoted strings and the comment loop    *)
(* are the code of lua_kv1.c again.  ckv3_next_token has two parameters;   *)
(* the calls that pass a third argument are taken as calls with two.       *)
(***************************************************************************)
ckv3_ch2token(ch) == ckv1_ch2token(ch)

ckv3_next_string_token(M, tok) == Call("ckv1_next_string_token", <<M, tok>>)

\* the part of ckv3_next_token after white space and one comment
ckv3_token_at(M, tok, p, ch, ty) ==
    With([M EXCEPT !.ptr = p], LAMBDA M1 :
        With([tok EXCEPT !.type = ty, !.index = p], LAMBDA t1 :
    IF ty = "T_ERROR"
       THEN [m |-> M1, t |-> set_token_error(t1, M1, "invalid token")]
       ELSE IF ty = "T_END" THEN [m |-> M1, t |-> t1]
       ELSE IF ty # "T_UNKNOWN"
       THEN [m |-> [M1 EXCEPT !.ptr = p + 1], t |-> t1]
       ELSE IF ch = DQ THEN Call("ckv3_next_string_token", <<M1, t1>>)
       ELSE [m |-> M1, t |-> set_token_error(t1, M1, "invalid token")]))

ckv3_next_token(M, tok) ==
    Yield(
    With(SkipWhitespace(M.data, M.ptr), LAMBDA p0 :
        With(At(M.data, p0), LAMBDA ch0 :
    IF ch0 # "<"
       THEN Call("ckv3_token_at", <<M, tok, p0, ch0, ckv3_ch2token(ch0)>>)
       ELSE With(CommentMark(M.data, p0), LAMBDA c :
            IF ~c.mark
            THEN Call("ckv3_token_at", <<M, tok, p0, c.ch, ckv3_ch2token(ch0)>>)
            ELSE With(ckv1_skip_comment(M.data, p0 + 4, 0), LAMBDA q :
                 IF q < 0
                 THEN [m |-> ScanPast(M, "comment scan past the input"),
                       t |-> tok]
                 ELSE With(SkipWhitespace(M.data, q), LAMBDA p1 :
                          With(At(M.data, p1), LAMBDA ch1 :
                      Call("ckv3_token_at", <<M, tok, p1, ch1, ckv3_ch2token(ch1)>>))))))))

ckv3_throw_parse_error(M, exp, tok) ==
    [luaL_error(strbuf_free(M, M.tmpid), ExpectedFound(exp, tok),
                tok.index + 1) EXCEPT !.found = tok.type]

ckv3_decode_ascend(M) ==
    [M EXCEPT !.depth = @ - 1, !.low = Min2(@, M.depth - 1)]

ckv3_descend_allowed(M, depth, slots) ==
    depth <= M.cfg.decode_max_depth /\ lua_checkstack(slots)

ckv3_decode_descend(M, slots) ==
    With(M.depth + 1, LAMBDA d :
        With([M EXCEPT !.depth = d, !.attempt = Max2(@, d)], LAMBDA M1 :
    IF Call("ckv3_descend_allowed", <<M, d, slots>>)
       THEN [M1 EXCEPT !.maxdepth = Max2(@, d)]
       ELSE luaL_error(strbuf_free(M1, M1.tmpid), TooDeep, M1.ptr)))

RECURSIVE ckv3_process_value(_, _)
RECURSIVE ckv3_object_loop(_, _)
RECURSIVE ckv3_array_loop(_, _, _)

\* the value that follows a tag is stored under the key as it is, without
\* the [tag, value] wrapper
parse_object_internal_untagged(M, tok) ==
    With(Call("push_token_string", <<M, tok>>), LAMBDA Mk :
        With(Call("ckv3_next_token", <<Mk, tok>>), LAMBDA r1 :
    IF ~Running(Mk) THEN [m |-> Mk, t |-> tok]
       ELSE IF ~Running(r1.m) THEN r1
       ELSE IF r1.t.type = "T_STRING"
       THEN With(Call("ckv3_next_token", <<r1.m, r1.t>>), LAMBDA r2 :
                With(Call("ckv3_process_value", <<r2.m, r2.t>>), LAMBDA Mv :
            IF ~Running(Mv) THEN [m |-> Mv, t |-> r2.t]
               ELSE [m |-> lua_rawset3(Mv), t |-> r2.t]))
       ELSE IF r1.t.type \in {"T_OBJ_BEGIN", "T_ARR_BEGIN"}
       THEN With(Call("ckv3_process_value", <<r1.m, r1.t>>), LAMBDA Mv :
            IF ~Running(Mv) THEN [m |-> Mv, t |-> r1.t]
            ELSE [m |-> lua_rawset3(Mv), t |-> r1.t])
       ELSE [m |-> Call("ckv3_throw_parse_error", <<r1.m, "unexpected token", r1.t>>),
             t |-> r1.t]))

\* [m, t]: the caller goes on with the token that the call left
parse_object_internal(M, tok) ==
    With(Call("push_token_string", <<M, tok>>), LAMBDA Mk :
        With(Call("ckv3_next_token", <<Mk, tok>>), LAMBDA r1 :
    IF ~Running(Mk) THEN [m |-> Mk, t |-> tok]
       ELSE IF ~Running(r1.m) THEN r1
       ELSE IF r1.t.type = "T_STRING"
       THEN With(lua_rawseti2(
                          Call("push_token_string", <<lua_newtable(r1.m), r1.t>>), 1), LAMBDA Mt :
                With(Call("ckv3_next_token", <<Mt, r1.t>>), LAMBDA r2 :
                With(Call("ckv3_process_value", <<r2.m, r2.t>>), LAMBDA Mv :
            IF ~Running(Mv) THEN [m |-> Mv, t |-> r2.t]
               ELSE [m |-> lua_rawset3(lua_rawseti2(Mv, 2)), t |-> r2.t])))
       ELSE IF r1.t.type \in {"T_OBJ_BEGIN", "T_ARR_BEGIN"}
       THEN With(Call("ckv3_process_value", <<r1.m, r1.t>>), LAMBDA Mv :
            IF ~Running(Mv) THEN [m |-> Mv, t |-> r1.t]
            ELSE [m |-> lua_rawset3(Mv), t |-> r1.t])
       ELSE [m |-> Call("ckv3_throw_parse_error", <<r1.m, "unexpected token", r1.t>>),
             t |-> r1.t]))

ckv3_parse_object_context(M) ==
    With(Call("ckv3_decode_descend", <<M, 3>>), LAMBDA M1 :
    IF ~Running(M1) THEN M1
    ELSE With(Call("ckv3_next_token", <<lua_newtable(M1), FreshToken>>), LAMBDA r :
         IF ~Running(r.m) THEN r.m
         ELSE IF r.t.type = "T_OBJ_END" THEN Call("ckv3_decode_ascend", <<r.m>>)
         ELSE Call("ckv3_object_loop", <<r.m, r.t>>)))

\* one turn of the while (1) of ckv3_parse_object_context
ckv3_object_loop(M, tok) ==
    IF tok.type # "T_STRING"
    THEN Call("ckv3_throw_parse_error", <<M, "object key string", tok>>)
    ELSE With(Call("parse_object_internal", <<M, tok>>), LAMBDA r1 :
         IF ~Running(r1.m) THEN r1.m
         ELSE With(Call("ckv3_next_token", <<r1.m, r1.t>>), LAMBDA r2 :
              IF ~Running(r2.m) THEN r2.m
              ELSE IF r2.t.type = "T_OBJ_END" THEN Call("ckv3_decode_ascend", <<r2.m>>)
              ELSE Call("ckv3_object_loop", <<r2.m, r2.t>>)))

\* after ',' one more token is read; ']' there or in place of the ','
\* ends the array: [m, t, done]
AfterElement(r) ==
    IF ~Running(r.m) THEN [m |-> r.m, t |-> r.t, done |-> TRUE]
    ELSE IF r.t.type = "T_COMMA"
    THEN With(Call("ckv3_next_token", <<r.m, r.t>>), LAMBDA r2 :
         [m |-> r2.m, t |-> r2.t,
          done |-> ~Running(r2.m) \/ r2.t.type = "T_ARR_END"])
    ELSE [m |-> r.m, t |-> r.t, done |-> r.t.type = "T_ARR_END"]

\* the else branch of the array loop: the value on top of the stack is
\* the tag of an element [tag, value].  keyName is used after the value
\* it points into was popped.
TaggedElement(M, tok, i) ==
    With(M.stack[Len(M.stack)], LAMBDA top :
        With(lua_tolstring(top), LAMBDA keyName :
        With(lua_push(lua_newtable(lua_pop(M, 1)), LStr(keyName)), LAMBDA M1 :
        With([lua_rawseti2(M1, 1) EXCEPT !.dangling = TRUE], LAMBDA M2 :
        With(Call("ckv3_process_value", <<M2, tok>>), LAMBDA M3 :
    IF ~Running(M3) THEN [m |-> M3, t |-> tok, done |-> TRUE]
       ELSE AfterElement(
                Call("ckv3_next_token", <<lua_rawseti2(lua_rawseti2(M3, 2), i), tok>>)))))))

\* one turn of the for (i = 1; ; i++) of ckv3_parse_array_context
ckv3_array_loop(M, tok, i) ==
    With(Call("ckv3_process_value", <<M, tok>>), LAMBDA M1 :
        With(Call("ckv3_next_token", <<M1, tok>>), LAMBDA r1 :
        With(IF r1.t.type \in {"T_COMMA", "T_ARR_END"}
              THEN AfterElement([m |-> lua_rawseti2(r1.m, i), t |-> r1.t])
              ELSE Call("TaggedElement", <<r1.m, r1.t, i>>), LAMBDA st :
    IF ~Running(M1) THEN M1
       ELSE IF ~Running(r1.m) THEN r1.m
       ELSE IF ~Running(st.m) THEN st.m
       ELSE IF st.done THEN Call("ckv3_decode_ascend", <<st.m>>)
       ELSE Call("ckv3_array_loop", <<st.m, st.t, i + 1>>))))

ckv3_parse_array_context(M) ==
    With(Call("ckv3_decode_descend", <<M, 2>>), LAMBDA M1 :
    IF ~Running(M1) THEN M1
    ELSE With(Call("ckv3_next_token", <<lua_newtable(M1), FreshToken>>), LAMBDA r :
         IF ~Running(r.m) THEN r.m
         ELSE IF r.t.type = "T_ARR_END" THEN Call("ckv3_decode_ascend", <<r.m>>)
         ELSE Call("ckv3_array_loop", <<r.m, r.t, 1>>)))

ckv3_process_value(M, tok) ==
    IF ~Running(M) THEN M
    ELSE IF tok.type = "T_STRING" THEN Call("push_token_string", <<M, tok>>)
    ELSE IF tok.type = "T_OBJ_BEGIN" THEN Call("ckv3_parse_object_context", <<M>>)
    ELSE IF tok.type = "T_ARR_BEGIN" THEN Call("ckv3_parse_array_context", <<M>>)
    ELSE Call("ckv3_throw_parse_error", <<M, "value", tok>>)

\* the while (1) of ckv3_decode
RECURSIVE ckv3_decode_loop(_, _)
ckv3_decode_loop(M, tok) ==
    With(Call("parse_object_internal", <<M, tok>>), LAMBDA r1 :
    IF ~Running(r1.m) THEN r1.m
    ELSE With(Call("ckv3_next_token", <<r1.m, r1.t>>), LAMBDA r2 :
         IF ~Running(r2.m) THEN r2.m
         ELSE IF r2.t.type = "T_END" THEN r2.m
         ELSE Call("ckv3_decode_loop", <<r2.m, r2.t>>)))

ckv3_decode(data, cfg) ==
    With(NewParse(data, cfg), LAMBDA M0 :
    IF IsUtf16(data) THEN luaL_error(M0, Kv1Utf16Msg, 0)
    ELSE
    With(lua_newtable(strbuf_new_tmp(M0, "tmp")), LAMBDA M1 :
        With(Call("ckv3_next_token", <<M1, FreshToken>>), LAMBDA r1 :
        With(IF ~Running(r1.m) THEN r1.m
              ELSE IF r1.t.type = "T_STRING" THEN Call("ckv3_decode_loop", <<r1.m, r1.t>>)
              ELSE Call("ckv3_throw_parse_error", <<r1.m, "Must begin with string", r1.t>>), LAMBDA M2 :
    IF Running(M2) THEN Return(strbuf_free(M2, M2.tmpid)) ELSE M2))))

\* the emitters of KV3
ckv3_append_string(E, v) ==
    Emit(E, <<DQ>> \o EscapeBytes(lua_tolstring(v)) \o <<DQ>>)

ckv3_encode_exception(E, reason) == EmitError(FreeUnlessKept(E), reason)

ckv3_encode_depth_allowed(cfg, depth) ==
    depth <= cfg.encode_max_depth /\ lua_checkstack(3)

ckv3_check_encode_depth(E, cfg, depth) ==
    IF ckv3_encode_depth_allowed(cfg, depth) THEN E
    ELSE EmitError(FreeUnlessKept(E), ExcessiveNesting)

RECURSIVE ckv3_append_data(_, _, _, _)
RECURSIVE ckv3_array_elems(_, _, _, _, _, _)
RECURSIVE ckv3_object_entries(_, _, _, _, _)

\* the for loop of ckv3_append_array
ckv3_array_elems(E, cfg, depth, tb, i, n) ==
    IF ~(E.status = "run") \/ i > n THEN E
    ELSE With(Call("ckv3_append_data", <<Emit(E, <<LF>>), cfg, depth,
                                    TblGet(tb, LNum(i))>>), LAMBDA E1 :
             With(IF E1.status = "run" /\ i < n THEN Emit(E1, <<",">>)
                   ELSE E1, LAMBDA E2 :
         Call("ckv3_array_elems", <<E2, cfg, depth, tb, i + 1, n>>)))

\* v is the value on top of the stack; lua_rawgeti needs a table there
ckv3_append_array(E, cfg, depth, v, array_length) ==
    IF v.t # "tbl" /\ array_length > 0
    THEN EmitUndefined(Emit(E, <<"[", LF>>), "lua_rawgeti of a value that is no table")
    ELSE With(Call("ckv3_array_elems", <<Emit(E, <<"[">>), cfg, depth, v, 1,
                                    array_length>>), LAMBDA E1 :
         IF E1.status = "run"
            THEN Emit(E1, <<LF>> \o Tabs(depth - 1) \o <<"]">>)
            ELSE E1)

\* the while (lua_next) of ckv3_append_object; depth is current_depth
\* after its increment
ckv3_object_entries(E, cfg, depth, tb, i) ==
    IF ~(E.status = "run") \/ i > Len(tb.e) THEN E
    ELSE IF tb.e[i].k.t = "num"
    THEN EmitUndefined(E, "lua_tolstring changes a key during lua_next")
    ELSE With(Emit(E, <<LF>> \o Tabs(depth - 2)), LAMBDA E1 :
             With(Emit(Call("ckv3_append_string", <<E1, tb.e[i].k>>), <<SP>>), LAMBDA E2 :
             With(Call("ckv3_append_array", <<E2, cfg, depth, tb.e[i].v,
                                     lua_rawlen(tb.e[i].v)>>), LAMBDA E3 :
         Call("ckv3_object_entries", <<E3, cfg, depth, tb, i + 1>>))))

ckv3_append_object(E, cfg, depth, tb) ==
    With(Call("ckv3_object_entries", <<Emit(E, <<"{">>), cfg, depth + 1, tb, 1>>), LAMBDA E1 :
    IF E1.status = "run"
       THEN Emit(E1, <<LF>> \o Tabs(depth + 1 - 3) \o <<"}">>)
       ELSE E1)

ckv3_append_data(E, cfg, depth, v) ==
    IF ~(E.status = "run") THEN E
    ELSE IF v.t = "str" THEN Call("ckv3_append_string", <<E, v>>)
    ELSE IF v.t = "tbl"
    THEN With(Call("ckv3_check_encode_depth", <<E, cfg, depth + 1>>), LAMBDA E1 :
             With(lua_rawlen(v), LAMBDA array_length :
         IF ~(E1.status = "run") THEN E1
            ELSE IF array_length > 0
            THEN Call("ckv3_append_array", <<E1, cfg, depth + 1, v, array_length>>)
            ELSE Call("ckv3_append_object", <<E1, cfg, depth + 1, v>>)))
    ELSE ckv3_encode_exception(E, "Cannot serialise: type not supported")

\* the while (lua_next) of ckv3_encode
RECURSIVE ckv3_encode_entries(_, _, _, _)
ckv3_encode_entries(E, cfg, tb, i) ==
    IF ~(E.status = "run") \/ i > Len(tb.e) THEN E
    ELSE IF tb.e[i].k.t # "str"
    THEN ckv3_encode_exception(E, "Cannot serialise: table key must be a string")
    ELSE With(IF i > 1 THEN Emit(E, <<LF>>) ELSE E, LAMBDA E1 :
             With(Emit(Call("ckv3_append_string", <<E1, tb.e[i].k>>), <<SP>>), LAMBDA E2 :
             With(Call("ckv3_append_data", <<E2, cfg, 0, tb.e[i].v>>), LAMBDA E3 :
         Call("ckv3_encode_entries", <<E3, cfg, tb, i + 1>>))))

ckv3_encode(tb, cfg) == EmitReturn(Call("ckv3_encode_entries", <<EncodeBuffer(cfg), cfg, tb, 1>>))

(***************************************************************************)
(* The call of a C function by its name: Call(f, a) is the function f      *)
(* applied to the arguments a.                                            *)
(***************************************************************************)
Call(f, a) ==
    CASE f = "ckv_decode" -> ckv_decode(a[1], a[2])
      [] f = "ckv_decode2" -> ckv_decode2(a[1], a[2])
      [] f = "ckv_decode_file_array" -> ckv_decode_file_array(a[1], a[2], a[3])
      [] f = "ckv1_decode" -> ckv1_decode(a[1], a[2])
      [] f = "ckv1_decode_array" -> ckv1_decode_array(a[1], a[2])
      [] f = "ckv3_decode" -> ckv3_decode(a[1], a[2])
      [] f = "ckv_encode" -> ckv_encode(a[1], a[2])
      [] f = "ckv_encode2" -> ckv_encode2(a[1], a[2])
      [] f = "ckv1_encode" -> ckv1_encode(a[1], a[2])
      [] f = "ckv1_encode_array" -> ckv1_encode_array(a[1], a[2])
      [] f = "ckv3_encode" -> ckv3_encode(a[1], a[2])
      [] f = "ckv_next_token" -> ckv_next_token(a[1], a[2])
      [] f = "ckv1_next_token" -> ckv1_next_token(a[1], a[2], a[3])
      [] f = "ckv3_next_token" -> ckv3_next_token(a[1], a[2])
      [] f = "ckv_process_value" -> ckv_process_value(a[1], a[2])
      [] f = "ckv_process_value2" -> ckv_process_value2(a[1], a[2])
      [] f = "ckv1_process_value" -> ckv1_process_value(a[1], a[2])
      [] f = "ckv3_process_value" -> ckv3_process_value(a[1], a[2])
      [] f = "ckv_throw_parse_error" -> ckv_throw_parse_error(a[1], a[2], a[3])
      [] f = "ckv1_throw_parse_error" -> ckv1_throw_parse_error(a[1], a[2], a[3])
      [] f = "ckv3_throw_parse_error" -> ckv3_throw_parse_error(a[1], a[2], a[3])
      [] f = "ckv_append_data" -> ckv_append_data(a[1], a[2], a[3], a[4])
      [] f = "ckv_append_data2" -> ckv_append_data2(a[1], a[2], a[3], a[4])
      [] f = "ckv1_append_data" -> ckv1_append_data(a[1], a[2], a[3], a[4], a[5], a[6])
      [] f = "ckv3_append_data" -> ckv3_append_data(a[1], a[2], a[3], a[4])
      [] f = "ckv_append_string" -> ckv_append_string(a[1], a[2])
      [] f = "ckv1_append_string" -> ckv1_append_string(a[1], a[2], a[3])
      [] f = "ckv3_append_string" -> ckv3_append_string(a[1], a[2])
      [] f = "ckv_decode_file" -> ckv_decode_file(a[1], a[2], a[3], a[4])
      [] f = "push_token_string" -> push_token_string(a[1], a[2])
      [] f = "ckv_next_string_token" -> ckv_next_string_token(a[1], a[2])
      [] f = "ckv_next_number_token" -> ckv_next_number_token(a[1], a[2])
      [] f = "ckv_decode_ascend" -> ckv_decode_ascend(a[1])
      [] f = "ckv_descend_allowed" -> ckv_descend_allowed(a[1], a[2], a[3])
      [] f = "ckv_decode_descend" -> ckv_decode_descend(a[1], a[2])
      [] f = "ckv_parse_object_context" -> ckv_parse_object_context(a[1])
      [] f = "ckv_object_loop" -> ckv_object_loop(a[1], a[2])
      [] f = "ckv_parse_array_context" -> ckv_parse_array_context(a[1])
      [] f = "ckv_array_loop" -> ckv_array_loop(a[1], a[2], a[3])
      [] f = "ckv_append_number" -> ckv_append_number(a[1], a[2])
      [] f = "ckv_check_encode_depth" -> ckv_check_encode_depth(a[1], a[2], a[3])
      [] f = "ckv_object_entries" -> ckv_object_entries(a[1], a[2], a[3], a[4], a[5])
      [] f = "ckv_append_object" -> ckv_append_object(a[1], a[2], a[3], a[4])
      [] f = "ckv_array_pairs" -> ckv_array_pairs(a[1], a[2], a[3], a[4], a[5], a[6])
      [] f = "ckv_append_array" -> ckv_append_array(a[1], a[2], a[3], a[4], a[5])
      [] f = "ckv_decode_file_body" -> ckv_decode_file_body(a[1], a[2])
      [] f = "ckv_include" -> ckv_include(a[1], a[2], a[3], a[4], a[5])
      [] f = "ckv_checkref" -> ckv_checkref(a[1], a[2], a[3], a[4])
      [] f = "ScanResult" -> ScanResult(a[1], a[2], a[3])
      [] f = "ckv1_next_string_token" -> ckv1_next_string_token(a[1], a[2])
      [] f = "ckv1_next_string_token_noquote" -> ckv1_next_string_token_noquote(a[1], a[2])
      [] f = "ckv1_next_number_token" -> ckv1_next_number_token(a[1], a[2])
      [] f = "ckv1_token_at" -> ckv1_token_at(a[1], a[2], a[3], a[4], a[5], a[6])
      [] f = "ckv1_decode_ascend" -> ckv1_decode_ascend(a[1])
      [] f = "ckv1_descend_allowed" -> ckv1_descend_allowed(a[1], a[2], a[3])
      [] f = "ckv1_decode_descend" -> ckv1_decode_descend(a[1], a[2])
      [] f = "NestKV3" -> NestKV3(a[1], a[2])
      [] f = "CloseContext" -> CloseContext(a[1], a[2], a[3])
      [] f = "ckv1_parse_object_context" -> ckv1_parse_object_context(a[1])
      [] f = "ckv1_object_loop" -> ckv1_object_loop(a[1], a[2], a[3])
      [] f = "ArrayColon" -> ArrayColon(a[1], a[2], a[3], a[4], a[5])
      [] f = "ckv1_array_loop" -> ckv1_array_loop(a[1], a[2], a[3], a[4], a[5], a[6])
      [] f = "ckv1_maparray_loop" -> ckv1_maparray_loop(a[1], a[2], a[3])
      [] f = "ckv1_parse_array_context" -> ckv1_parse_array_context(a[1], a[2])
      [] f = "ckv1_decode_loop" -> ckv1_decode_loop(a[1], a[2])
      [] f = "ExpectEnd" -> ExpectEnd(a[1], a[2])
      [] f = "ckv1_decode_array_loop" -> ckv1_decode_array_loop(a[1], a[2], a[3])
      [] f = "ckv1_append_number" -> ckv1_append_number(a[1], a[2])
      [] f = "ckv1_check_encode_depth" -> ckv1_check_encode_depth(a[1], a[2], a[3])
      [] f = "ckv1_append_key" -> ckv1_append_key(a[1], a[2])
      [] f = "ckv1_array_elems" -> ckv1_array_elems(a[1], a[2], a[3], a[4], a[5], a[6], a[7])
      [] f = "ckv1_append_array" -> ckv1_append_array(a[1], a[2], a[3], a[4], a[5], a[6])
      [] f = "ckv1_object_entries" -> ckv1_object_entries(a[1], a[2], a[3], a[4], a[5], a[6])
      [] f = "ckv1_append_object" -> ckv1_append_object(a[1], a[2], a[3], a[4], a[5])
      [] f = "ckv1_flat_pairs" -> ckv1_flat_pairs(a[1], a[2], a[3], a[4], a[5], a[6], a[7])
      [] f = "ckv1_flag_elems" -> ckv1_flag_elems(a[1], a[2], a[3], a[4], a[5], a[6], a[7])
      [] f = "ckv1_append_object_array" -> ckv1_append_object_array(a[1], a[2], a[3], a[4], a[5], a[6])
      [] f = "ckv1_encode_entries" -> ckv1_encode_entries(a[1], a[2], a[3], a[4])
      [] f = "ckv1_encode_array_items" -> ckv1_encode_array_items(a[1], a[2], a[3], a[4], a[5])
      [] f = "ckv3_next_string_token" -> ckv3_next_string_token(a[1], a[2])
      [] f = "ckv3_token_at" -> ckv3_token_at(a[1], a[2], a[3], a[4], a[5])
      [] f = "ckv3_decode_ascend" -> ckv3_decode_ascend(a[1])
      [] f = "ckv3_descend_allowed" -> ckv3_descend_allowed(a[1], a[2], a[3])
      [] f = "ckv3_decode_descend" -> ckv3_decode_descend(a[1], a[2])
      [] f = "parse_object_internal" -> parse_object_internal(a[1], a[2])
      [] f = "ckv3_parse_object_context" -> ckv3_parse_object_context(a[1])
      [] f = "ckv3_object_loop" -> ckv3_object_loop(a[1], a[2])
      [] f = "TaggedElement" -> TaggedElement(a[1], a[2], a[3])
      [] f = "ckv3_array_loop" -> ckv3_array_loop(a[1], a[2], a[3])
      [] f = "ckv3_parse_array_context" -> ckv3_parse_array_context(a[1])
      [] f = "ckv3_decode_loop" -> ckv3_decode_loop(a[1], a[2])
      [] f = "ckv3_check_encode_depth" -> ckv3_check_encode_depth(a[1], a[2], a[3])
      [] f = "ckv3_array_elems" -> ckv3_array_elems(a[1], a[2], a[3], a[4], a[5], a[6])
      [] f = "ckv3_append_array" -> ckv3_append_array(a[1], a[2], a[3], a[4], a[5])
      [] f = "ckv3_object_entries" -> ckv3_object_entries(a[1], a[2], a[3], a[4], a[5])
      [] f = "ckv3_append_object" -> ckv3_append_object(a[1], a[2], a[3], a[4])
      [] f = "ckv3_encode_entries" -> ckv3_encode_entries(a[1], a[2], a[3], a[4])

(***************************************************************************)
(* The harness: a Lua program that builds an input text, calls one decode  *)
(* entry point on it, and then either encodes the tree it got and decodes  *)
(* the text again, or decodes the text with its comments taken out.        *)
(***************************************************************************)
VARIABLES api, cfg, input, nfrag, pc, dec, enc, redec, plain, again

vars == <<api, cfg, input, nfrag, pc, dec, enc, redec, plain, again>>

Kv0Apis == {"kv0.decode", "kv0.decode2"}
Kv1Apis == {"kv1.decode", "kv1.decode_array"}
FileApi == "kv0.decode_file_array"
Apis == Kv0Apis \cup Kv1Apis \cup {"kv3.decode", FileApi}

\* the configurations: the two switches whose defaults the sources leave
\* to a header take both values where the dialect reads them
Configs(a) ==
    {[decode_max_depth |-> DecodeMaxDepth, encode_max_depth |-> emd,
      decode_invalid_numbers |-> din, keepln |-> kl,
      encode_sparse_ratio |-> 2, encode_sparse_safe |-> 10,
      encode_sparse_convert |-> FALSE, encode_keep_buffer |-> keep,
      encode_buf |-> <<>>] :
        din \in (IF a = "kv3.decode" THEN {FALSE} ELSE BOOLEAN),
        kl \in (IF a \in Kv0Apis THEN BOOLEAN ELSE {FALSE}),
        keep \in (IF a = FileApi THEN {FALSE} ELSE BOOLEAN),
        emd \in (IF a = FileApi THEN {EncodeMaxDepth}
                 ELSE {EncodeMaxDepth - 1, EncodeMaxDepth})}

Q(ch) == <<DQ, ch, DQ>>

\* "r" { "a" "1" "b" "2" }
Kv0Scenario ==
    Q("r") \o <<SP, "{", SP>> \o Q("a") \o <<SP>> \o Q("1") \o <<SP>>
        \o Q("b") \o <<SP>> \o Q("2") \o <<SP, "}">>

Kv0Seeds == {<<>>, Kv0Scenario, Q("k") \o <<SP, "{">>, <<"1", SP>>, <<"/", "c">>}

Kv0Frags ==
    {Q("a"), <<DQ, "b", SP, "c", DQ>>, <<SP>> \o Q("j") \o <<SP, "{">>,
     <<SP, "}">>, <<SP, "7">>, <<"/", "c", LF>>, <<"*">>, <<DQ, "x">>}

\* key=value LF num=42
Kv1Scenario ==
    <<"k", "e", "y", "=", "v", "a", "l", "u", "e", LF, "n", "u", "m", "=",
      "4", "2">>

\* [ "a", "b" ]
Kv1ArrayScenario ==
    <<"[", SP>> \o Q("a") \o <<",", SP>> \o Q("b") \o <<SP, "]">>

\* i=[ "a" "b" ]
Kv1NoComma ==
    <<"i", "=", "[", SP>> \o Q("a") \o <<SP>> \o Q("b") \o <<SP, "]">>

\* k={ a=1 }
Kv1Plain == <<"k", "=", "{", SP, "a", "=", "1", SP, "}">>

\* k={ "h" { a=1 } }: the body of k behind the header { "h" {
Kv1Header ==
    <<"k", "=", "{", SP>> \o Q("h") \o <<SP, "{", SP, "a", "=", "1", SP, "}",
                                         SP, "}">>

\* k={ { "h" { a=1 } }: the header after the brace of k
Kv1InnerHeader ==
    <<"k", "=", "{", SP, "{", SP>> \o Q("h")
        \o <<SP, "{", SP, "a", "=", "1", SP, "}", SP, "}">>

\* "a\\b\"c": a run of two backslashes and a backslash before a quote
Escaped == <<DQ, "a", BS, BS, "b", BS, DQ, "c", DQ>>

CommentA == <<"<", "!", "-", "-", "a", "-", "-", ">">>
CommentB == <<SP, "<", "!", "-", "-", "b", "-", "-", ">">>
\* <!--c--->
CommentDashes == <<"<", "!", "-", "-", "c", "-", "-", "-", ">">>

\* k="a\ : the input ends behind a backslash inside a quoted string
Kv1OpenEscape == <<"k", "=", DQ, "a", BS>>

Kv1Seeds ==
    {Kv1Scenario, Kv1ArrayScenario, Kv1NoComma, Kv1Header, Kv1InnerHeader,
     Kv1OpenEscape,
     <<DQ, "a", SP, "b", DQ, "=", "1">>,
     <<"k", "=", "{">>, <<"a", "=", "b">>, Escaped \o <<"=", "1">>,
     CommentA, CommentDashes, <<"*">>}

Kv1Frags ==
    {<<SP, "j", "=", "{">>, <<SP, "}">>, <<SP, "a", "=", "1", LF>>,
     <<SP, "i", "=", "[", SP, "2", ",", SP, "]">>, CommentB, <<"*">>,
     <<SP>> \o Q("x"), <<LF>>}

\* "k" "t" "v"
Kv3Tagged == Q("k") \o <<SP>> \o Q("t") \o <<SP>> \o Q("v")

\* "k" { "a" { "b" "t" "v" } }
Kv3Nested ==
    Q("k") \o <<SP, "{", SP>> \o Q("a") \o <<SP, "{", SP>> \o Q("b")
        \o <<SP>> \o Q("t") \o <<SP>> \o Q("v") \o <<SP, "}", SP, "}">>

\* "k" [ 1, "int" 2, 3 ]
Kv3ArrayScenario ==
    Q("k") \o <<SP, "[", SP, "1", ",", SP, DQ, "i", "n", "t", DQ, SP, "2",
                ",", SP, "3", SP, "]">>

Kv3Seeds ==
    {Kv3Tagged, Kv3Nested, Kv3ArrayScenario, Q("k") \o <<SP, "{">>,
     Q("k") \o <<SP, "[">>, Escaped \o <<SP>> \o Q("t") \o <<SP>> \o Q("v"),
     CommentA, CommentDashes, <<"*">>}

Kv3Frags ==
    {<<SP>> \o Q("a") \o <<SP, "{">>, <<SP, "}">>, <<SP>> \o Q("b"),
     <<SP, "]">>, <<",">>, CommentB, <<"*">>,
     <<SP>> \o Q("a") \o <<SP, "[">>}

\* the file system of file mode: the main file d/m holds the input, and
\* next to it are a file that parses, one that does not, and one that
\* nests too deep
MainPath == <<"d", "/", "m">>
OkPath == <<"d", "/", "o">>
BadPath == <<"d", "/", "b">>
DeepPath == <<"d", "/", "p">>

Base(name) == <<"#", "b", "a", "s", "e", SP>> \o Q(name) \o <<LF>>

RECURSIVE Nest(_)
Nest(n) ==
    IF n = 0 THEN Q("v")
    ELSE <<"{", SP>> \o Q("n") \o <<SP>> \o Nest(n - 1) \o <<SP, "}">>

Files(data) ==
    [path \in {MainPath, OkPath, BadPath, DeepPath} |->
        IF path = MainPath THEN data
        ELSE IF path = OkPath THEN Q("c") \o <<SP>> \o Q("9")
        ELSE IF path = BadPath THEN Q("c") \o <<SP, "*">>
        ELSE Q("c") \o <<SP>> \o Nest(DecodeMaxDepth + 1)]

FileSeeds ==
    {<<>>, Base("o"), Base("b"), Base("p"), Base("n"), <<"*">>}

FileFrags ==
    {Q("k"), <<SP>> \o Q("v"), <<SP, "{">>, <<SP, "}">>, <<SP, "*">>,
     <<"/", "c", LF>>, Base("o")}

Seeds(a) ==
    IF a \in Kv0Apis THEN Kv0Seeds
    ELSE IF a \in Kv1Apis THEN Kv1Seeds
    ELSE IF a = "kv3.decode" THEN Kv3Seeds
    ELSE FileSeeds

Frags(a) ==
    IF a \in Kv0Apis THEN Kv0Frags
    ELSE IF a \in Kv1Apis THEN Kv1Frags
    ELSE IF a = "kv3.decode" THEN Kv3Frags
    ELSE FileFrags

\* the C function behind a Lua entry point (the luaL_Reg tables)
DecodeEntry(a) ==
    IF a = "kv0.decode" THEN "ckv_decode"
    ELSE IF a = "kv0.decode2" THEN "ckv_decode2"
    ELSE IF a = "kv1.decode" THEN "ckv1_decode"
    ELSE IF a = "kv1.decode_array" THEN "ckv1_decode_array"
    ELSE IF a = "kv3.decode" THEN "ckv3_decode"
    ELSE "ckv_decode_file_array"

EncodeEntry(a) ==
    IF a = "kv0.decode" THEN "ckv_encode"
    ELSE IF a = "kv0.decode2" THEN "ckv_encode2"
    ELSE IF a = "kv1.decode" THEN "ckv1_encode"
    ELSE IF a = "kv1.decode_array" THEN "ckv1_encode_array"
    ELSE "ckv3_encode"

Decoder(a, data, c) ==
    Call(DecodeEntry(a),
         IF a = FileApi THEN <<MainPath, Files(data), c>> ELSE <<data, c>>)

Encoder(a, tb, c) == Call(EncodeEntry(a), <<tb, c>>)

(***************************************************************************)
(* The comment spans of a text, as the dialects define them: in KV0 from   *)
(* a slash outside a quoted string up to the CR or LF that ends the line,  *)
(* in KV1 and KV3 from <!-- outside a quoted string through the next -->.  *)
(***************************************************************************)
StartsWith(data, pre) ==
    Len(data) >= Len(pre) /\ SubSeq(data, 1, Len(pre)) = pre

\* the text after the first --> of data, <<>> when it has none
RECURSIVE AfterArrow(_)
AfterArrow(data) ==
    IF data = <<>> THEN <<>>
    ELSE IF StartsWith(data, <<"-", "-", ">">>) THEN SubSeq(data, 4, Len(data))
    ELSE AfterArrow(Tail(data))

\* the text from the first CR or LF of data on
RECURSIVE FromLineEnd(_)
FromLineEnd(data) ==
    IF data = <<>> \/ Head(data) \in {CR, LF} THEN data
    ELSE FromLineEnd(Tail(data))

\* inStr: the scan is inside a quoted string
RECURSIVE StripFrom(_, _, _)
StripFrom(a, data, inStr) ==
    IF data = <<>> THEN <<>>
    ELSE IF inStr
    THEN IF Head(data) = BS /\ Len(data) >= 2
         THEN <<BS, data[2]>> \o StripFrom(a, SubSeq(data, 3, Len(data)), TRUE)
         ELSE <<Head(data)>> \o StripFrom(a, Tail(data), Head(data) # DQ)
    ELSE IF Head(data) = DQ
    THEN <<DQ>> \o StripFrom(a, Tail(data), TRUE)
    ELSE IF a \in Kv0Apis \cup {FileApi} /\ Head(data) = "/"
    THEN StripFrom(a, FromLineEnd(data), FALSE)
    ELSE IF a \notin Kv0Apis \cup {FileApi}
            /\ StartsWith(data, <<"<", "!", "-", "-">>)
    THEN StripFrom(a, AfterArrow(SubSeq(data, 5, Len(data))), FALSE)
    ELSE <<Head(data)>> \o StripFrom(a, Tail(data), FALSE)

StripComments(a, data) == StripFrom(a, data, FALSE)

HasComment(a, data) == StripComments(a, data) # data

\* a loop that appends to the scratch buffer while it reads behind the
\* input ends at the first byte there that stops it: within the capacity
\* of the buffer or behind it
Spilled(M) == IF M.spill THEN {M, [M EXCEPT !.slack = -1]} ELSE {M}

\* what a call that left defined behaviour may do: end the process,
\* raise, or return some value
Outcomes(M) ==
    IF M.status = "ub"
    THEN UNION {{[N EXCEPT !.status = "crash"],
                 [N EXCEPT !.status = "error"],
                 [N EXCEPT !.status = "ok", !.stack = <<LTbl(<<>>)>>],
                 [N EXCEPT !.status = "ok", !.stack = <<LStr(<<"?">>)>>]} :
                    N \in Spilled(M)}
    ELSE IF M.dangling
    THEN {M, [M EXCEPT !.status = "crash"],
          [M EXCEPT !.status = "ok", !.stack = <<LTbl(<<>>)>>]}
    ELSE {M}

EmitOutcomes(E) ==
    IF E.status = "ub"
    THEN {[E EXCEPT !.status = "crash"],
          [E EXCEPT !.status = "error"],
          [E EXCEPT !.status = "ok"],
          [E EXCEPT !.status = "ok", !.out = @ \o <<"?">>]}
    ELSE {E}

\* the value a decode call returned
Result(M) == M.stack[Len(M.stack)]

NoCall == [status |-> "none"]

\* the text can still grow: the decoder read it to its end
Extensible(a, data, c) ==
    With(Decoder(a, data, c), LAMBDA M :
    M.status = "ok" \/ M.ptr >= Len(data))

\* the configuration after an encode call that left E: a kept buffer
\* holds the bytes that the call wrote
Kept(c, E) ==
    IF c.encode_keep_buffer THEN [c EXCEPT !.encode_buf = E.out] ELSE c

\* {k: "v"}
NextTree == LTbl(<<[k |-> LStr(<<"k">>), v |-> LStr(<<"v">>)]>>)

\* the trees of a second encode call: one that every dialect encodes, one
\* with a value that cannot be serialised and one with a key that is
\* neither a string nor a number
NextTrees ==
    {NextTree,
     LTbl(<<[k |-> LStr(<<"k">>), v |-> LFunc]>>),
     LTbl(<<[k |-> LBool(TRUE), v |-> LStr(<<"v">>)]>>)}

Init ==
    /\ api \in Apis
    /\ cfg \in Configs(api)
    /\ input \in Seeds(api)
    /\ nfrag = 0
    /\ pc = "feed"
    /\ dec = NoCall
    /\ enc = NoCall
    /\ redec = NoCall
    /\ plain = NoCall
    /\ again = NoCall

Feed ==
    /\ pc = "feed"
    /\ nfrag < MaxFrags
    /\ Extensible(api, input, cfg)
    /\ \E f \in Frags(api) : input' = input \o f
    /\ nfrag' = nfrag + 1
    /\ UNCHANGED <<api, cfg, pc, dec, enc, redec, plain, again>>

Decode ==
    /\ pc = "feed"
    /\ dec' \in Outcomes(Decoder(api, input, cfg))
    /\ pc' = "decoded"
    /\ UNCHANGED <<api, cfg, input, nfrag, enc, redec, plain, again>>

Encode ==
    /\ pc = "decoded"
    /\ api # FileApi
    /\ dec.status = "ok"
    /\ Result(dec).t = "tbl"
    /\ \E e \in EmitOutcomes(Encoder(api, Result(dec), cfg)) :
           enc' = e /\ cfg' = Kept(cfg, e)
    /\ pc' = "encoded"
    /\ UNCHANGED <<api, input, nfrag, dec, redec, plain, again>>

\* the next encode call under the same configuration; tree is its argument
EncodeAgain ==
    /\ pc = "encoded"
    /\ \E tr \in NextTrees :
           \E e \in EmitOutcomes(Encoder(api, tr, cfg)) :
               again' = [tree |-> tr] @@ e /\ cfg' = Kept(cfg, e)
    /\ pc' = "again"
    /\ UNCHANGED <<api, input, nfrag, dec, enc, redec, plain>>

Redecode ==
    /\ pc = "encoded"
    /\ enc.status = "ok"
    /\ redec' \in Outcomes(Decoder(api, enc.out, cfg))
    /\ pc' = "redecoded"
    /\ UNCHANGED <<api, cfg, input, nfrag, dec, enc, plain, again>>

DecodePlain ==
    /\ pc = "decoded"
    /\ dec.status = "ok"
    /\ HasComment(api, input)
    /\ plain' \in Outcomes(Decoder(api, StripComments(api, input), cfg))
    /\ pc' = "plain"
    /\ UNCHANGED <<api, cfg, input, nfrag, dec, enc, redec, again>>

Next == Feed \/ Decode \/ Encode \/ EncodeAgain \/ Redecode \/ DecodePlain

Spec == Init /\ [][Next]_vars

(***************************************************************************)
(* Properties.  A call stayed within defined behaviour when its result     *)
(* does not rest on an outcome that C leaves open.                         *)
(***************************************************************************)
Defined(r) == r.status \in {"ok", "error"} /\ ~r.ub /\ ~r.dangling

EmitDefined(r) == r.status \in {"ok", "error"} /\ ~r.ub

Entry(k, v) == [k |-> k, v |-> v]

\* the decode calls that the run has made so far
Calls ==
    (IF pc = "feed" THEN {} ELSE {dec})
        \cup (IF pc = "redecoded" THEN {redec} ELSE {})
        \cup (IF pc = "plain" THEN {plain} ELSE {})

\* decode, encode, decode again: the second tree is the first one
RoundTrip ==
    (pc = "redecoded" /\ Defined(dec) /\ EmitDefined(enc) /\ Defined(redec))
        => (redec.status = "ok" /\ Result(redec) = Result(dec))

\* C1: KV1 round trip: in map mode and in array mode, decoding the text
\* that encode makes of a decoded tree gives the same tree again.
C1_Kv1RoundTrip == api \in Kv1Apis => RoundTrip

\* C2: KV3 round trip: decoding the text that encode makes of a decoded
\* tree gives the same tree again.
C2_Kv3RoundTrip == api = "kv3.decode" => RoundTrip

\* C3: KV0 round trip: decode with encode, and decode2 with encode2, give
\* the same tree again.
C3_Kv0RoundTrip == api \in Kv0Apis => RoundTrip

\* C4: decode bounded: no decoder enters a container at a depth above
\* decode_max_depth, and a call that tried to raised the error
\* "Found too many nested data structures".
C4_DecodeBounded ==
    \A r \in Calls :
        /\ r.maxdepth <= cfg.decode_max_depth
        /\ (Defined(r) /\ r.attempt > cfg.decode_max_depth)
               => (r.status = "error" /\ r.msg = TooDeep)

C4_Witness ==
    /\ pc = "decoded"
    /\ Defined(dec)
    /\ dec.attempt > cfg.decode_max_depth
    /\ dec.maxdepth = cfg.decode_max_depth
    /\ dec.status = "error"

\* C5: comment irrelevance: when an input decodes, and the input with its
\* comment spans taken out decodes too, the two trees are the same.
C5_CommentIrrelevance ==
    (pc = "plain" /\ Defined(dec) /\ Defined(plain) /\ plain.status = "ok")
        => Result(plain) = Result(dec)

\* C6: all errors abort the call: a decode call in which the tokenizer
\* yielded an ERROR token raised an error.
C6_ErrorsAbort ==
    (pc = "decoded" /\ Defined(dec) /\ dec.errtok) => dec.status = "error"

\* C7: scratch buffer discipline: when a decode call has ended, by a
\* return or by an error, every scratch buffer that it or a nested parse
\* acquired has been released exactly once.
C7_ScratchReleasedOnce ==
    (pc = "decoded" /\ Defined(dec))
        => \A i \in 1..Len(dec.bufs) :
               dec.bufs[i].kind = "tmp" => dec.bufs[i].frees = 1

\* the first token of the input, as ckv_decode reads it
FirstToken ==
    Call("ckv_next_token",
         <<lua_newtable(strbuf_new_tmp(NewParse(input, cfg), "tmp")),
           FreshToken>>).t

\* {root: {a: "1", b: "2"}}, the root of the scenario being r
Kv0ScenarioTree ==
    LTbl(<<Entry(LStr(<<"r">>),
                 LTbl(<<Entry(LStr(<<"a">>), LStr(<<"1">>)),
                        Entry(LStr(<<"b">>), LStr(<<"2">>))>>))>>)

\* C8: KV0 decode returns an object that is empty when the first token is
\* END and otherwise holds one entry, the first pair of the input; an
\* object value holds the STRING value pairs of its body, and
\* "r" { "a" "1" "b" "2" } decodes to {r: {a: "1", b: "2"}}.
C8_Kv0DecodeShape ==
    (api = "kv0.decode" /\ pc = "decoded" /\ Defined(dec)
                        /\ dec.status = "ok")
        => /\ Result(dec).t = "tbl"
           /\ FirstToken.type = "T_END" => Result(dec).e = <<>>
           /\ FirstToken.type # "T_END" => Len(Result(dec).e) = 1
           /\ FirstToken.type = "T_STRING"
                  => Result(dec).e[1].k = LStr(FirstToken.str)
           /\ \A i \in 1..Len(Result(dec).e) :
                  Result(dec).e[i].v.t = "tbl"
                      => \A j \in 1..Len(Result(dec).e[i].v.e) :
                             Result(dec).e[i].v.e[j].k.t = "str"
           /\ input = Kv0Scenario => Result(dec) = Kv0ScenarioTree

C8_Witness ==
    /\ api = "kv0.decode"
    /\ pc = "decoded"
    /\ input = Kv0Scenario
    /\ Defined(dec)
    /\ dec.status = "ok"
    /\ Result(dec) = Kv0ScenarioTree

\* {key: "value", num: 42}
Kv1ScenarioTree ==
    LTbl(<<Entry(LStr(<<"k", "e", "y">>), LStr(<<"v", "a", "l", "u", "e">>)),
           Entry(LStr(<<"n", "u", "m">>), LNum(42))>>)

\* key="value" LF num=42
Kv1ScenarioQuoted ==
    <<"k", "e", "y", "=", DQ, "v", "a", "l", "u", "e", DQ, LF, "n", "u", "m",
      "=", "4", "2">>

Kv1ScenarioRun ==
    api = "kv1.decode" /\ input = Kv1Scenario /\ pc \in {"decoded", "encoded"}

C10_Kv1WholeArray ==
    (api = "kv1.decode_array" /\ pc = "decoded" /\ input = Kv1ArrayScenario)
        => /\ dec.status = "ok"
           /\ Result(dec) = LTbl(<<Entry(LNum(1), LStr(ArrayFlag)),
                                   Entry(LNum(2), LStr(<<"a">>)),
                                   Entry(LNum(3), LStr(<<"b">>))>>)

\* {k: [1, ["int", 2], 3]}
Kv3ArrayTree ==
    LTbl(<<Entry(LStr(<<"k">>),
                 LTbl(<<Entry(LNum(1), LNum(1)),
                        Entry(LNum(2),
                              LTbl(<<Entry(LNum(1), LStr(<<"i", "n", "t">>)),
                                     Entry(LNum(2), LNum(2))>>)),
                        Entry(LNum(3), LNum(3))>>))>>)

\* C11: the KV3 decoder stores an array element as a plain element when the
\* token after it is a comma or the closing bracket and as [tag, value]
\* otherwise, at consecutive indices from 1, so that the array
\* [ 1, "int" 2, 3 ] decodes to [1, ["int", 2], 3].
C11_Kv3ArrayDecode ==
    (pc = "decoded" /\ api = "kv3.decode" /\ input = Kv3ArrayScenario)
        => (dec.status = "ok" /\ Result(dec) = Kv3ArrayTree)

\* the first n tokens of the input as ckv3_next_token hands them out: the
\* parse state and the token after the n-th call
RECURSIVE Kv3Tok(_)
Kv3Tok(n) ==
    IF n = 0
    THEN [m |-> lua_newtable(strbuf_new_tmp(NewParse(input, cfg), "tmp")),
          t |-> FreshToken]
    ELSE With(Kv3Tok(n - 1), LAMBDA r : Call("ckv3_next_token", <<r.m, r.t>>))

\* the input is made of exactly the four tokens of the kinds a, b, c, d
Kv3FourTokens(a, b, c, d) ==
    /\ Kv3Tok(1).t.type = a
    /\ Kv3Tok(2).t.type = b
    /\ Kv3Tok(3).t.type = c
    /\ Kv3Tok(4).t.type = d

Kv3Accepted ==
    pc = "decoded" /\ api = "kv3.decode" /\ Defined(dec) /\ dec.status = "ok"

\* {k: {a: {b: ["t", "v"]}}}
Kv3NestedTree ==
    LTbl(<<Entry(LStr(<<"k">>),
                 LTbl(<<Entry(LStr(<<"a">>),
                              LTbl(<<Entry(LStr(<<"b">>),
                                           LTbl(<<Entry(LNum(1), LStr(<<"t">>)),
                                                  Entry(LNum(2), LStr(<<"v">>))>>))>>))>>))>>)

\* C12 as the claim states it: every entry of the decoded top-level object
\* carries a type tag, a string, as the first element of its value.
C12_Kv3EveryEntryTagged ==
    Kv3Accepted
        => \A i \in 1..Len(Result(dec).e) :
               /\ Result(dec).e[i].v.t = "tbl"
               /\ TblGet(Result(dec).e[i].v, LNum(1)).t = "str"

\* C12: in KV3 an entry whose value begins with a STRING token is stored as
\* the two-entry array [tag, value], the value being the next scanned
\* value, at top level and in an object body; an entry whose value begins
\* with { or [ is stored as that container itself, without a tag.
C12_Kv3EntryTagging ==
    Kv3Accepted
        => /\ \A i \in 1..Len(Result(dec).e) : Result(dec).e[i].v.t = "tbl"
           /\ Kv3FourTokens("T_STRING", "T_STRING", "T_STRING", "T_END")
                  => Result(dec) =
                         LTbl(<<Entry(LStr(Kv3Tok(1).t.str),
                                      LTbl(<<Entry(LNum(1), LStr(Kv3Tok(2).t.str)),
                                             Entry(LNum(2), LStr(Kv3Tok(3).t.str))>>))>>)
           /\ (\/ Kv3FourTokens("T_STRING", "T_OBJ_BEGIN", "T_OBJ_END", "T_END")
               \/ Kv3FourTokens("T_STRING", "T_ARR_BEGIN", "T_ARR_END", "T_END"))
                  => Result(dec) =
                         LTbl(<<Entry(LStr(Kv3Tok(1).t.str), LTbl(<<>>))>>)
           /\ input = Kv3Nested => Result(dec) = Kv3NestedTree

C12_Witness ==
    /\ Kv3Accepted
    /\ input = Kv3Tagged
    /\ Kv3FourTokens("T_STRING", "T_STRING", "T_STRING", "T_END")
    /\ Result(dec) =
           LTbl(<<Entry(LStr(<<"k">>),
                        LTbl(<<Entry(LNum(1), LStr(<<"t">>)),
                               Entry(LNum(2), LStr(<<"v">>))>>))>>)

\* the tree of the file d/o, which holds "c" "9"
OkFileTree == LTbl(<<Entry(LStr(<<"c">>), LStr(<<"9">>))>>)

\* C13: decode_file_array returns one outer object that holds the tree of
\* the file under the file's leaf name and the tree of every included file
\* under that file's leaf name: a main file d/m that begins with an include
\* of the file o gives an object with the keys m and o.
C13_FileModeIncludes ==
    (pc = "decoded" /\ api = FileApi /\ Defined(dec) /\ dec.status = "ok"
                    /\ StartsWith(input, Base("o")))
        => /\ Result(dec).t = "tbl"
           /\ TblGet(Result(dec), LStr(<<"m">>)).t = "tbl"
           /\ TblGet(Result(dec), LStr(<<"o">>)) = OkFileTree

\* C14: when a file that decode_file_array has to open cannot be opened,
\* the call raises an error and returns no tree: a main file that begins
\* with an include of the file n, which does not exist, makes the call
\* raise.
C14_FileOpenFailureRaises ==
    (pc = "decoded" /\ api = FileApi /\ Defined(dec)
                    /\ StartsWith(input, Base("n")))
        => dec.status = "error"

\* the number of containers that enclose the most deeply nested table
\* among the values of tb, tb itself being one of them
RECURSIVE NestDepth(_)
NestDepth(tb) ==
    IF \E i \in 1..Len(tb.e) : tb.e[i].v.t = "tbl"
    THEN 1 + NestDepth(
             CHOOSE v \in {tb.e[i].v : i \in {j \in 1..Len(tb.e) : tb.e[j].v.t = "tbl"}} :
                 \A w \in {tb.e[i].v : i \in {j \in 1..Len(tb.e) : tb.e[j].v.t = "tbl"}} :
                     NestDepth(w) <= NestDepth(v))
    ELSE 0

Encoded == pc \in {"encoded", "redecoded"} /\ EmitDefined(enc)

\* C15: an encoder succeeds on a tree whose nesting depth is at most
\* encode_max_depth and raises 'Cannot serialise, excessive nesting' exactly
\* when the nesting depth exceeds it, the depth of a table being the number
\* of containers that enclose it.
C15_EncodeDepthLimit ==
    Encoded
        => /\ NestDepth(Result(dec)) <= cfg.encode_max_depth
                  => enc.msg # ExcessiveNesting
           /\ NestDepth(Result(dec)) > cfg.encode_max_depth
                  => (enc.status = "error" /\ enc.msg = ExcessiveNesting)

\* the encode calls that the run has made so far
EncodeCalls ==
    (IF pc \in {"encoded", "redecoded", "again"} THEN {enc} ELSE {})
        \cup (IF pc = "again" THEN {again} ELSE {})

\* C16: on an encode error the buffer of the call is freed if and only if
\* encode_keep_buffer is off; with encode_keep_buffer on the buffer stays
\* allocated across the error and the next encode call resets it, so that
\* its output holds no byte of the failed call.
C16_EncodeBufferKept ==
    /\ \A r \in EncodeCalls :
           (EmitDefined(r) /\ r.status = "error")
               => /\ r.keep = cfg.encode_keep_buffer
                  /\ ~cfg.encode_keep_buffer => r.frees = 1
                  /\ cfg.encode_keep_buffer => r.frees = 0
    /\ (pc = "again" /\ cfg.encode_keep_buffer /\ EmitDefined(enc)
                     /\ enc.status = "error" /\ EmitDefined(again)
                     /\ again.status = "ok")
           => again.out =
                  Encoder(api, again.tree,
                          [cfg EXCEPT !.encode_keep_buffer = FALSE]).out

C16_Witness ==
    /\ pc = "again"
    /\ cfg.encode_keep_buffer
    /\ EmitDefined(enc)
    /\ enc.status = "error"
    /\ enc.out # <<>>
    /\ enc.frees = 0
    /\ again.status = "ok"
    /\ again.out # <<>>

\* the byte with which a token of a type begins, "" for the types that
\* more than one byte can begin
TokenByte(type) ==
    CASE type = "T_OBJ_BEGIN" -> "{" [] type = "T_OBJ_END" -> "}"
      [] type = "T_ARR_BEGIN" -> "[" [] type = "T_ARR_END" -> "]"
      [] type = "T_COMMA" -> "," [] type = "T_COLON" -> "="
      [] type = "T_REF" -> "#" [] type = "T_COMMENT" -> "/"
      [] type = "T_END" -> NUL
      [] OTHER -> ""

\* the decode errors that report a position
PositionErrors ==
    {r \in Calls : Defined(r) /\ r.status = "error" /\ r.pos # 0}

\* the 1-based offset pos is the one of the first byte of a token of the
\* type found
TokenAt(data, pos, found) ==
    With(At(data, pos - 1), LAMBDA b :
    IF TokenByte(found) # "" THEN b = TokenByte(found)
    ELSE /\ found \in {"T_STRING", "T_NUMBER", "T_BOOLEAN", "T_NULL"}
         /\ b \notin {SP, TAB, LF, CR, NUL, OOB}
         /\ TokenByte(ckv1_ch2token(b)) = "")

\* C17: a decode error that reports a position reports a 1-based byte
\* offset: for an unexpected token the offset of the byte at which the
\* token was recognized, for a lexical error the offset of the byte at
\* which scanning stopped, for the nesting-depth error the offset of the
\* container-opening byte that exceeded the limit
C17_ErrorPosition ==
    \A r \in PositionErrors :
        IF r.msg = TooDeep
        THEN /\ At(r.edata, r.pos - 1) \in {"{", "["}
             /\ r.eptr = r.pos
             /\ r.attempt = r.cfg.decode_max_depth + 1
        ELSE IF r.found = "T_ERROR"
        THEN r.pos = r.eptr + 1 /\ r.pos <= Len(r.edata) + 1
        ELSE TokenAt(r.edata, r.pos, r.found)

DepthErrorReported == \E r \in PositionErrors : r.msg = TooDeep

LexicalErrorReported == \E r \in PositionErrors : r.found = "T_ERROR"

UnexpectedTokenReported ==
    \E r \in PositionErrors :
        r.found \in {"T_OBJ_END", "T_END", "T_STRING", "T_OBJ_BEGIN"}

C17_Witness ==
    /\ api \in Kv1Apis
    /\ DepthErrorReported

\* one call of the tokenizer of the dialect that the run decodes
NextToken(r, isKey) ==
    IF r.m.status # "run" THEN r
    ELSE IF api \in Kv1Apis THEN Call("ckv1_next_token", <<r.m, r.t, isKey>>)
    ELSE IF api = "kv3.decode" THEN Call("ckv3_next_token", <<r.m, r.t>>)
    ELSE Call("ckv_next_token", <<r.m, r.t>>)

\* the parse state and the token after n tokenizer calls on the input
RECURSIVE Tokens(_, _)
Tokens(n, isKey) ==
    IF n = 0
    THEN [m |-> strbuf_new_tmp(NewParse(input, cfg), "tmp"), t |-> FreshToken]
    ELSE NextToken(Tokens(n - 1, isKey), isKey)

\* the n-th call returned an ERROR or an END token
StoppedAt(n, isKey) ==
    /\ Tokens(n, isKey).m.status = "run"
    /\ Tokens(n, isKey).t.type \in {"T_ERROR", "T_END"}

\* C18: when next_token returns an ERROR token or an END token, calling it
\* again returns a token of the same kind, whether the ERROR token came
\* from the byte classifier or from the string and number scanners
C18_TokenizerIdempotent ==
    pc = "decoded" =>
        \A n \in 1..(Len(input) + 1), isKey \in {0, 1} :
            (StoppedAt(n, isKey) /\ Tokens(n + 1, isKey).m.status = "run")
                => Tokens(n + 1, isKey).t.type = Tokens(n, isKey).t.type

\* the call came back to its caller: it returned a value or raised an error
Returned(r) == r.status \in {"ok", "error"}

\* the scans that left the text on the way: a line comment without CR or
\* LF, a block comment without its end, an include path without its quote
ScanLeftInput(r) ==
    /\ r.ub
    /\ r.msg \in {"comment scan past the end of the input",
                  "comment scan past the input",
                  "comment scan past the end of the buffer",
                  "include scan past the end of the buffer"}

\* C19: every decode call terminates on every finite NUL-terminated input,
\* returning a tree or raising an error, also when the input ends inside a
\* comment, inside an include directive or inside an unclosed container
C19_DecodeTerminates ==
    \A r \in Calls : ScanLeftInput(r) \/ ~r.ub => Returned(r)

\* C20: in every tokenizer, string scanner, comment skipper and the KV0
\* include pre-pass the read cursor stays within the input and its
\* terminating NUL: 0 <= cursor offset <= input length, also for a quoted
\* string that ends in a backslash run, an unterminated comment and an
\* unterminated include path
C20_CursorBound ==
    \A r \in Calls :
        /\ 0 <= r.ptr /\ r.ptr <= Len(r.data)
        /\ 0 <= r.eptr /\ r.eptr <= Len(r.edata)

\* the n-th token of the input as the KV1 tokenizer hands it out in a
\* value position
ValueToken(n) == Tokens(n, 0).t

\* the values of the tokens from the n-th one up to the first token that
\* is neither a value nor a comma
RECURSIVE ValuesFrom(_)
ValuesFrom(n) ==
    IF ValueToken(n).type = "T_STRING"
    THEN <<LStr(ValueToken(n).str)>> \o ValuesFrom(n + 1)
    ELSE IF ValueToken(n).type = "T_NUMBER"
    THEN <<LNum(ValueToken(n).num)>> \o ValuesFrom(n + 1)
    ELSE IF ValueToken(n).type = "T_COMMA" THEN ValuesFrom(n + 1)
    ELSE <<>>

RECURSIVE ValuesEnd(_)
ValuesEnd(n) ==
    IF ValueToken(n).type \in {"T_STRING", "T_NUMBER", "T_COMMA"}
    THEN ValuesEnd(n + 1)
    ELSE n

\* the input is key = [ values and commas ] and nothing else
FlatArrayInput ==
    /\ ValueToken(1).type = "T_STRING"
    /\ ValueToken(2).type = "T_COLON"
    /\ ValueToken(3).type = "T_ARR_BEGIN"
    /\ ValueToken(ValuesEnd(4)).type = "T_ARR_END"
    /\ ValueToken(ValuesEnd(4) + 1).type = "T_END"

ArrayOf(vs) == LTbl([i \in 1..Len(vs) |-> Entry(LNum(i), vs[i])])

\* C21: in map mode the decoded KV1 array holds, in input order and at
\* consecutive indices from 1, every value that appears between [ and ]:
\* no value token is consumed in separator position and discarded
C21_Kv1ArrayKeepsEveryValue ==
    (/\ pc = "decoded" /\ api = "kv1.decode"
     /\ Defined(dec) /\ dec.status = "ok" /\ FlatArrayInput)
        => Result(dec) =
               LTbl(<<Entry(LStr(ValueToken(1).str), ArrayOf(ValuesFrom(4)))>>)

\* what stands in the key positions of the top level from the token of r
\* on: "end" when the pairs run up to the end of the input, "badkey" when
\* a key position holds a token that is neither a STRING nor the END
RECURSIVE TopLevelKeys(_)
TopLevelKeys(r) ==
    IF r.m.status # "run" THEN "stop"
    ELSE IF r.t.type = "T_END" THEN "end"
    ELSE IF r.t.type # "T_STRING" THEN "badkey"
    ELSE With(NextToken(r, 0), LAMBDA r1 :
         With(IF r1.t.type = "T_COLON" THEN NextToken(r1, 0) ELSE r1, LAMBDA rv :
         IF rv.m.status # "run" \/ rv.t.type \notin {"T_STRING", "T_NUMBER"}
         THEN "stop"
         ELSE TopLevelKeys(NextToken(rv, 1))))

\* C22: at the top level of a KV1 text the token after each pair must be a
\* STRING key or the END; any other token in key position raises a parse
\* error, so that every stored key comes from a STRING token
C22_Kv1TopLevelKeyChecked ==
    (/\ pc = "decoded" /\ api = "kv1.decode" /\ Defined(dec)
     /\ Tokens(1, 1).t.type = "T_STRING"
     /\ TopLevelKeys(Tokens(1, 1)) = "badkey")
        => dec.status = "error"

\* C23: a KV1 container whose body begins with the header { STRING { is
\* parsed as if the header were absent: the inner body gives the entries
\* of the container, one extra } is consumed after the real end, and the
\* depth counter is back at its value before the container
C23_Kv1NestedHeaderSkipped ==
    (/\ pc = "decoded" /\ api = "kv1.decode"
     /\ input \in {Kv1Header, Kv1InnerHeader})
        => /\ dec.status = "ok"
           /\ Result(dec) = Result(Decoder(api, Kv1Plain, cfg))
           /\ dec.depth = 0

\* the n-th token of the input begins with a byte of the set
TokenBeginsWith(n, bytes) ==
    /\ Tokens(n, 0).m.status = "run"
    /\ At(input, Tokens(n, 0).t.index) \in bytes

\* C24: the KV3 tokenizer scans a token that starts with a letter as a
\* bare string and returns STRING, and scans a token that starts with a
\* digit or - as a NUMBER, so that no ERROR token comes from either
C24_Kv3BareTokens ==
    (pc = "decoded" /\ api = "kv3.decode") =>
        \A n \in 1..(Len(input) + 1) :
            /\ TokenBeginsWith(n, Lower \cup Upper)
                   => Tokens(n, 0).t.type = "T_STRING"
            /\ TokenBeginsWith(n, Digits \cup {"-"})
                   => Tokens(n, 0).t.type = "T_NUMBER"

\* the text has the three bytes -->
RECURSIVE HasArrow(_)
HasArrow(data) ==
    IF data = <<>> THEN FALSE
    ELSE StartsWith(data, <<"-", "-", ">">>) \/ HasArrow(Tail(data))

\* the first token that the tokenizer of the dialect hands out on a text
TokenOfText(data) ==
    NextToken([m |-> strbuf_new_tmp(NewParse(data, cfg), "tmp"),
               t |-> FreshToken], 1)

\* the input opens with a block comment that has an end, and no second
\* comment follows it
OneLeadingComment ==
    /\ StartsWith(input, <<"<", "!", "-", "-">>)
    /\ HasArrow(SubSeq(input, 5, Len(input)))
    /\ \A i \in 5..Len(input) : input[i] # "<"

\* C25: a KV1/KV3 block comment ends at the first --> after its <!--, also
\* when further - bytes stand before it as in --->, and the token returned
\* is the first token after that terminator
C25_BlockCommentEnds ==
    (pc = "decoded" /\ api \in Kv1Apis \cup {"kv3.decode"} /\ OneLeadingComment)
        => With(AfterArrow(SubSeq(input, 5, Len(input))), LAMBDA rest :
           /\ Tokens(1, 1).m.status = "run"
           /\ Tokens(1, 1).t.type = TokenOfText(rest).t.type
           /\ Tokens(1, 1).t.index
                  = Len(input) - Len(rest) + TokenOfText(rest).t.index
           /\ Tokens(1, 1).t.type = "T_STRING"
                  => Tokens(1, 1).t.str = TokenOfText(rest).t.str)

\* the offset of the first byte at or after p that ends a bare string or
\* the input
RECURSIVE BareEnd(_, _)
BareEnd(data, p) ==
    IF At(data, p) \in BareStop \cup {NUL, OOB} THEN p
    ELSE BareEnd(data, p + 1)

\* the n-th tokenizer call starts a bare string scan: offset of the byte at
\* which it starts, -1 when the call does something else
BareStart(n, isKey) ==
    With(Tokens(n - 1, isKey), LAMBDA r :
        With(SkipWhitespace(input, r.m.ptr), LAMBDA p :
    IF /\ r.m.status = "run"
       /\ \/ At(input, p) \in Lower \cup Upper
          \/ isKey = 1 /\ At(input, p) \in Digits \cup {"-"}
    THEN p ELSE -1))

\* C26: from the current byte the KV1 bare string scan consumes the bytes
\* before the first of SP, TAB, CR, LF and =, leaves the cursor on that
\* delimiter and returns a STRING token, also for a bare string that is
\* the last token of the input
C26_Kv1BareString ==
    (pc = "decoded" /\ api \in Kv1Apis) =>
        \A n \in 1..(Len(input) + 1), isKey \in {0, 1} :
            BareStart(n, isKey) >= 0 =>
                /\ Tokens(n, isKey).m.status = "run"
                /\ Tokens(n, isKey).t.type = "T_STRING"
                /\ Tokens(n, isKey).m.ptr = BareEnd(input, BareStart(n, isKey))

\* the bytes after the backslashes with which bs begins
RECURSIVE AfterRun(_)
AfterRun(bs) ==
    IF bs # <<>> /\ Head(bs) = BS THEN AfterRun(Tail(bs)) ELSE bs

\* the content of a quoted string with every maximal run of backslashes
\* replaced by one / and the byte after the run kept as it is
RECURSIVE Collapse(_)
Collapse(bs) ==
    IF bs = <<>> THEN <<>>
    ELSE IF Head(bs) # BS THEN <<Head(bs)>> \o Collapse(Tail(bs))
    ELSE IF AfterRun(bs) = <<>> THEN <<"/">>
    ELSE <<"/", Head(AfterRun(bs))>> \o Collapse(Tail(AfterRun(bs)))

\* the offset of the quote that closes a string whose content starts at
\* p: the first quote that does not follow a backslash run; -1 when the
\* input ends before it
RECURSIVE ClosingQuote(_, _, _)
ClosingQuote(data, p, afterRun) ==
    IF At(data, p) \in {NUL, OOB} THEN -1
    ELSE IF At(data, p) = BS THEN ClosingQuote(data, p + 1, TRUE)
    ELSE IF At(data, p) = DQ /\ ~afterRun THEN p
    ELSE ClosingQuote(data, p + 1, FALSE)

\* every tokenizer call from the state r on that starts at a quote of a
\* closed string returns the string with its backslash runs replaced and
\* leaves the cursor behind the closing quote
RECURSIVE QuotedFrom(_, _)
QuotedFrom(r, isKey) ==
    IF r.m.status # "run" \/ r.t.type \in {"T_END", "T_ERROR"} THEN TRUE
    ELSE With(SkipWhitespace(input, r.m.ptr), LAMBDA p :
             With(ClosingQuote(input, p + 1, FALSE), LAMBDA c :
             With(NextToken(r, isKey), LAMBDA nx :
         /\ (At(input, p) = DQ /\ c >= 0) =>
                /\ nx.m.status = "run"
                /\ nx.t.type = "T_STRING"
                /\ nx.t.str = Collapse(SubSeq(input, p + 2, c))
                /\ nx.m.ptr = c + 1
         /\ QuotedFrom(nx, isKey))))

\* C27: in a KV1/KV3 quoted string every maximal run of backslashes is
\* replaced by a single / followed by the byte after the run as it is;
\* no escape table is consulted, and the other bytes are copied unchanged
C27_BackslashRuns ==
    (pc = "decoded" /\ api \in Kv1Apis \cup {"kv3.decode"}) =>
        \A isKey \in {0, 1} : QuotedFrom(Tokens(0, isKey), isKey)

\* a decode that succeeded on a text whose first string has backslashes,
\* and the string is a key of the tree with the runs replaced
C27_Witness ==
    /\ pc = "decoded" /\ api \in Kv1Apis \cup {"kv3.decode"}
    /\ dec.status = "ok" /\ Defined(dec)
    /\ StartsWith(input, Escaped)
    /\ \E i \in 1..Len(Result(dec).e) :
           Result(dec).e[i].k = LStr(<<"a", "/", "b", "/", DQ, "c">>)

(***************************************************************************)
(* The \u escapes of KV0 strings.  A second specification decodes texts    *)
(* "<escapes>" "v" whose key is made of one or two \uXXXX escapes with     *)
(* digits drawn from small sets.                                           *)
(***************************************************************************)
EscapeUnits ==
    {<<h1, h2, h3, h4>> : h1 \in {"0", "d", "D"},
                          h2 \in {"0", "7", "8", "b", "c", "f"},
                          h3 \in {"0", "8", "g"},
                          h4 \in {"0", "F"}}

HighUnits == {<<"d", "8", "0", "0">>, <<"d", "b", "F", "F">>,
              <<"D", "8", "0", "F">>}

SecondUnits ==
    {<<"d", "c", "0", "0">>, <<"d", "f", "F", "F">>, <<"D", "C", "0", "F">>,
     <<"d", "8", "0", "0">>, <<"0", "0", "4", "1">>, <<"d", "g", "0", "0">>}

EscapeOf(u) == <<BS, "u">> \o u

EscapeContents ==
    {EscapeOf(u) : u \in EscapeUnits}
        \cup {EscapeOf(u) \o <<"x">> : u \in EscapeUnits}
        \cup {EscapeOf(h) \o EscapeOf(u) : h \in HighUnits, u \in SecondUnits}
        \cup {EscapeOf(h) \o <<BS, "n">> \o u : h \in HighUnits,
                                                u \in SecondUnits}

EscapeText(content) == <<DQ>> \o content \o <<DQ, SP>> \o Q("v")

EscapeInit ==
    /\ api \in Kv0Apis
    /\ cfg \in Configs(api)
    /\ input \in {EscapeText(c) : c \in EscapeContents}
    /\ nfrag = 0
    /\ pc = "feed"
    /\ dec = NoCall
    /\ enc = NoCall
    /\ redec = NoCall
    /\ plain = NoCall
    /\ again = NoCall

EscapeSpec == EscapeInit /\ [][Decode]_vars

\* the hexadecimal digits by their value
HexLower == <<"0", "1", "2", "3", "4", "5", "6", "7", "8", "9",
              "a", "b", "c", "d", "e", "f">>
HexUpper == <<"0", "1", "2", "3", "4", "5", "6", "7", "8", "9",
              "A", "B", "C", "D", "E", "F">>

IsHex(c) == \E v \in 1..16 : c \in {HexLower[v], HexUpper[v]}

HexVal(c) == (CHOOSE v \in 1..16 : c \in {HexLower[v], HexUpper[v]}) - 1

\* the 16-bit value of the four bytes of bs from index i on, -1 when one
\* of them is missing or is no hexadecimal digit
Unit(bs, i) ==
    IF Len(bs) < i + 3 THEN -1
    ELSE IF \E j \in i..(i + 3) : ~IsHex(bs[j]) THEN -1
    ELSE HexVal(bs[i]) * 4096 + HexVal(bs[i + 1]) * 256
             + HexVal(bs[i + 2]) * 16 + HexVal(bs[i + 3])

ByteVal(c) == CHOOSE b \in 0..255 : ByteOf(b) = c

IsEscape(bs, i) == Len(bs) >= i + 1 /\ bs[i] = BS /\ bs[i + 1] = "u"

\* the code points that the content of a string stands for, a plain byte
\* standing for its value: [ok, cps]
RECURSIVE CodePointsOf(_)
CodePointsOf(bs) ==
    IF bs = <<>> THEN [ok |-> TRUE, cps |-> <<>>]
    ELSE IF ~IsEscape(bs, 1)
    THEN With(CodePointsOf(Tail(bs)), LAMBDA r :
         [ok |-> Head(bs) # BS /\ r.ok,
          cps |-> <<ByteVal(Head(bs))>> \o r.cps])
    ELSE With(Unit(bs, 3), LAMBDA hi :
             With(Unit(bs, 9), LAMBDA lo :
         IF hi < 0 \/ (hi >= 56320 /\ hi <= 57343)
         THEN [ok |-> FALSE, cps |-> <<>>]
         ELSE IF hi >= 55296 /\ hi <= 56319
         THEN IF ~IsEscape(bs, 7) \/ lo < 56320 \/ lo > 57343
              THEN [ok |-> FALSE, cps |-> <<>>]
              ELSE With(CodePointsOf(SubSeq(bs, 13, Len(bs))), LAMBDA r :
                   [ok |-> r.ok,
                    cps |-> <<65536 + (hi - 55296) * 1024 + (lo - 56320)>>
                                \o r.cps])
         ELSE With(CodePointsOf(SubSeq(bs, 7, Len(bs))), LAMBDA r :
              [ok |-> r.ok, cps |-> <<hi>> \o r.cps])))

\* the number of UTF-8 bytes of a code point
Utf8Len(cp) ==
    IF cp <= 127 THEN 1 ELSE IF cp <= 2047 THEN 2
    ELSE IF cp <= 65535 THEN 3 ELSE 4

\* the bytes of s read back as UTF-8: the code points; <<-1>> for bytes
\* that are no UTF-8
RECURSIVE Utf8Read(_)
Utf8Read(s) ==
    IF s = <<>> THEN <<>>
    ELSE With(ByteVal(s[1]), LAMBDA b1 :
    IF b1 <= 127 THEN <<b1>> \o Utf8Read(Tail(s))
    ELSE IF b1 >= 192 /\ b1 <= 223 /\ Len(s) >= 2
    THEN <<(b1 - 192) * 64 + (ByteVal(s[2]) - 128)>>
             \o Utf8Read(SubSeq(s, 3, Len(s)))
    ELSE IF b1 >= 224 /\ b1 <= 239 /\ Len(s) >= 3
    THEN <<(b1 - 224) * 4096 + (ByteVal(s[2]) - 128) * 64
               + (ByteVal(s[3]) - 128)>>
             \o Utf8Read(SubSeq(s, 4, Len(s)))
    ELSE IF b1 >= 240 /\ b1 <= 247 /\ Len(s) >= 4
    THEN <<(b1 - 240) * 262144 + (ByteVal(s[2]) - 128) * 4096
               + (ByteVal(s[3]) - 128) * 64 + (ByteVal(s[4]) - 128)>>
             \o Utf8Read(SubSeq(s, 5, Len(s)))
    ELSE <<-1>>)

RECURSIVE Utf8Total(_)
Utf8Total(cps) ==
    IF cps = <<>> THEN 0
    ELSE Utf8Len(Head(cps)) + Utf8Total(Tail(cps))

\* the content of the key of an escape text
KeyContent == SubSeq(input, 2, Len(input) - 5)

\* C28: a KV0 \uXXXX escape outside D800-DFFF decodes to the code point
\* XXXX, a high surrogate followed by a low-surrogate escape to
\* 0x10000 + (XXXX - 0xD800) * 0x400 + (YYYY - 0xDC00); the code point is
\* emitted as 1, 2, 3 or 4 UTF-8 bytes and the cursor advances by 6 or 12
\* bytes; a lone low surrogate, a high surrogate without a low-surrogate
\* escape after it and a digit that is no hex digit give the ERROR token
\* 'invalid unicode escape code'
C28_UnicodeEscapes ==
    (pc = "decoded" /\ api \in Kv0Apis /\ IsEscape(KeyContent, 1)) =>
        With(CodePointsOf(KeyContent), LAMBDA ref :
        IF ref.ok
        THEN /\ dec.status = "ok"
             /\ Len(Result(dec).e) = 1
             /\ Utf8Read(Result(dec).e[1].k.s) = ref.cps
             /\ Len(Result(dec).e[1].k.s) = Utf8Total(ref.cps)
             /\ Tokens(1, 0).m.ptr = Len(KeyContent) + 2
        ELSE /\ dec.status = "error"
             /\ dec.found = "T_ERROR"
             /\ Tokens(1, 0).t.lit = "invalid unicode escape code")

\* a surrogate pair was decoded to four bytes
C28_Witness ==
    /\ pc = "decoded" /\ api \in Kv0Apis /\ dec.status = "ok"
    /\ IsEscape(KeyContent, 1) /\ IsEscape(KeyContent, 7)
    /\ Len(Result(dec).e) = 1
    /\ Len(Result(dec).e[1].k.s) = 4

\* C29: in every decoder current_depth starts at 0, goes up by one on
\* entering a container and down by one on leaving it: it is never
\* negative, never above the deepest container entered, and 0 again when
\* a decode, or the parse of an included file, returns successfully
C29_DepthBalance ==
    \A r \in Calls :
        /\ r.low >= 0
        /\ r.depth >= r.low
        /\ r.depth <= r.attempt
        /\ r.maxdepth <= r.attempt
        /\ r.attempt <= r.maxdepth + 1
        /\ Defined(r) => (r.left = 0 /\ (r.status = "ok" => r.depth = 0))

\* a decode that entered a container inside a container has returned
C29_Witness ==
    /\ pc = "decoded" /\ Defined(dec) /\ dec.status = "ok"
    /\ dec.maxdepth >= 2
    /\ dec.depth = 0

\* C30: for every input and every string token (quoted string, bare
\* string, KV0 include path) the bytes written into the scratch buffer for
\* the token, terminator included, do not exceed the capacity reserved
\* from the length of the input
C30_ScratchCapacity == \A r \in Calls : r.slack >= 0

\* the same for the calls that read nothing behind the input
ScratchWithinInput == \A r \in Calls : ~r.spill => r.slack >= 0

=============================================================================
